---- MODULE Spec2Model ----
(***************************************************************************)
(* A model of terrent's torrent core: the compact peer decoder             *)
(* (src/peers.rs), the metadata decoder, piece-hash splitter and canonical *)
(* encoder (src/file/bencode.rs) and the torrent descriptor with its       *)
(* tracker-URL builder (src/file/mod.rs).                                  *)
(*                                                                         *)
(* Bytes are the integers 0..255 and every byte string, text included, is  *)
(* a sequence of bytes.  Rust's Result is a record with a tag: "ok" with a *)
(* value, or "err" with the error; "none" is a call not made yet.  An      *)
(* anyhow error made by a format string keeps the format string and the    *)
(* arguments written into its {} places.                                   *)
(***************************************************************************)
EXTENDS Integers, Sequences, FiniteSets, TLC

VARIABLES
    peers_bin,      \* the argument of Peer::unmarshal
    peers_res,      \* what Peer::unmarshal returned
    info_in,        \* a BencodeInfo value, built as the unit tests build one
    split_res,      \* what BencodeInfo::split_pieces_hashes returned
    tf,             \* a TorrentFile, built as the unit tests build one
    url_args,       \* the arguments (peer_id, port) of build_tracker_url
    url_res,        \* what TorrentFile::build_tracker_url returned
    doc,            \* the bytes of a bencoded buffer
    info_res,       \* what BencodeInfo::from_bencode returned
    bencode_res,    \* what BencodeTorrent::from_bencode returned
    torrent_res,    \* what TorrentFile::try_from returned
    hash_input,     \* the buffer BencodeInfo::hash handed to Sha1::digest
    hash_res,       \* what BencodeInfo::hash returned
    hash_res2,      \* what a second call of hash on the same value returned
    canon_res,      \* what from_bencode returned for the buffer hash digests
    info_changed,   \* a BencodeInfo that differs from info_in in one field
    changed_input,  \* the buffer hash digests for info_changed
    changed_res,    \* what hash returned for info_changed
    model,          \* the Model of the terminal interface
    now,            \* the clock (Instant::now()), in ticks of one poll timeout
    pc,             \* where interface::init is in its loop
    event,          \* what handle_event polled: an event, or none
    message,        \* the Option<Message> handle_event or update returned
    popup,          \* a ConfirmationPopup
    popup_call,     \* the last call made on the popup
    popup_ret       \* what that call returned

peersVars == <<peers_bin, peers_res>>
piecesVars == <<info_in, split_res>>
urlVars == <<tf, url_args, url_res>>
decodeVars == <<doc, info_res, bencode_res, torrent_res>>
hashVars ==
    <<hash_input, hash_res, hash_res2, canon_res, info_changed, changed_input, changed_res>>
uiVars == <<model, now, pc, event, message>>
popupVars == <<popup, popup_call, popup_ret>>
vars == <<peersVars, piecesVars, urlVars, decodeVars, hashVars, uiVars, popupVars>>

None == [tag |-> "none"]
Ok(v) == [tag |-> "ok", val |-> v]
Err(e) == [tag |-> "err", err |-> e]

(***************************************************************************)
(* Slices and bytes                                                        *)
(***************************************************************************)
Byte == 0..255

\* s[a..b] of Rust: zero-based, b excluded
Slice(s, a, b) == SubSeq(s, a + 1, b)

Range(s) == {s[i] : i \in 1..Len(s)}

Min(a, b) == IF a < b THEN a ELSE b

\* the concatenation of a sequence of sequences, in order
RECURSIVE Concat(_)
Concat(ss) ==
    IF Len(ss) = 0 THEN <<>>
    ELSE IF Len(ss) = 1 THEN ss[1]
    ELSE Concat(SubSeq(ss, 1, Len(ss) \div 2))
            \o Concat(SubSeq(ss, Len(ss) \div 2 + 1, Len(ss)))

\* the input byte strings of the bounded checks: len bytes, the first is start
\* and each next one is step more (mod 256), so that no two neighbours agree
ByteRun(start, step, len) == [i \in 1..len |-> (start + step * (i - 1)) % 256]

(***************************************************************************)
(* Peer::unmarshal                                                         *)
(***************************************************************************)
PEER_SIZE == 6
PEER_IP_SIZE == 4

from_be_bytes_le(b) == b[2] * 256 + b[1]

\* u16::from_be_bytes
from_be_bytes(b) == b[1] * 256 + b[2]

\* the body of the for loop: the peer at index i
peer_at(bin, i) ==
    LET offset == i * PEER_SIZE
        ip_bytes == Slice(bin, offset, offset + PEER_IP_SIZE)
        port_bytes == Slice(bin, offset + PEER_IP_SIZE, offset + PEER_SIZE)
    IN  [ip |-> <<ip_bytes[1], ip_bytes[2], ip_bytes[3], ip_bytes[4]>>,
         port |-> from_be_bytes(<<port_bytes[1], port_bytes[2]>>)]

\* for i in 0..num_peers { ... peers.push(..) }, from index i on
RECURSIVE unmarshal_loop(_, _, _, _)
unmarshal_loop(bin, i, num_peers, peers) ==
    IF i >= num_peers
    THEN peers
    ELSE unmarshal_loop(bin, i + 1, num_peers, Append(peers, peer_at(bin, i)))

unmarshal(bin) ==
    IF Len(bin) % PEER_SIZE # 0
    THEN Err([fmt |-> "Received malformed peers list (length not divisible by {})",
              args |-> <<PEER_SIZE>>])
    ELSE Ok(unmarshal_loop(bin, 0, Len(bin) \div PEER_SIZE, <<>>))

(***************************************************************************)
(* BencodeInfo::split_pieces_hashes                                        *)
(***************************************************************************)
HASH_LEN == 20

\* slice::chunks(n): consecutive chunks of n bytes, the last one shorter when
\* n does not divide the length
RECURSIVE chunks(_, _)
chunks(s, n) ==
    IF Len(s) = 0
    THEN <<>>
    ELSE <<Slice(s, 0, Min(n, Len(s)))>> \o chunks(Slice(s, Min(n, Len(s)), Len(s)), n)

split_pieces_hashes_partial(info) ==
    Ok(chunks(Slice(info.pieces, 0, HASH_LEN * (Len(info.pieces) \div HASH_LEN)),
              HASH_LEN))

split_pieces_hashes_reversed(info) ==
    IF Len(info.pieces) % HASH_LEN # 0
    THEN Err([fmt |-> "Received malformed pieces: length {} is not a multiple of 20",
              args |-> <<Len(info.pieces)>>])
    ELSE LET c == chunks(info.pieces, HASH_LEN)
         IN  Ok([i \in 1..Len(c) |-> c[Len(c) + 1 - i]])

split_pieces_hashes(info) ==
    IF Len(info.pieces) % HASH_LEN # 0
    THEN Err([fmt |-> "Received malformed pieces: length {} is not a multiple of 20",
              args |-> <<Len(info.pieces)>>])
    ELSE Ok(chunks(info.pieces, HASH_LEN))

(***************************************************************************)
(* Text: decimal numbers, ASCII classes, hexadecimal digits                *)
(***************************************************************************)
\* char::is_ascii_alphanumeric
is_ascii_alphanumeric(b) ==
    \/ b \in 48..57
    \/ b \in 65..90
    \/ b \in 97..122

is_ascii_digit(b) == b \in 48..57

\* u8::to_ascii_lowercase
to_ascii_lowercase(b) == IF b \in 65..90 THEN b + 32 ELSE b

\* integer::to_string: decimal, no sign, no leading zeros
RECURSIVE to_string(_)
to_string(n) ==
    IF n < 10 THEN <<48 + n>> ELSE Append(to_string(n \div 10), 48 + (n % 10))

\* the upper-case hexadecimal digit of a nibble
hex_upper(n) == IF n < 10 THEN 48 + n ELSE 55 + n

\* "%XX" of a byte, as percent_encoding::percent_encode_byte writes it
percent_encode_byte(b) == <<37, hex_upper(b \div 16), hex_upper(b % 16)>>

\* the least index i >= from with s[i] in set, or Len(s) + 1
Find(s, set, from) ==
    LET I == {i \in from..Len(s) : s[i] \in set}
    IN  IF I = {} THEN Len(s) + 1 ELSE CHOOSE i \in I : \A j \in I : i <= j

\* the greatest index i with s[i] in set, or 0
FindLast(s, set) ==
    LET I == {i \in 1..Len(s) : s[i] \in set}
    IN  IF I = {} THEN 0 ELSE CHOOSE i \in I : \A j \in I : i >= j

\* str::parse of a non-empty digit string
RECURSIVE parse_digits(_)
parse_digits(s) ==
    IF Len(s) = 0 THEN 0
    ELSE parse_digits(SubSeq(s, 1, Len(s) - 1)) * 10 + (s[Len(s)] - 48)

(***************************************************************************)
(* percent_encoding::percent_encode(bytes, NON_ALPHANUMERIC)               *)
(***************************************************************************)
\* NON_ALPHANUMERIC holds every ASCII byte that is no letter and no digit;
\* percent_encode escapes the bytes of the set and every non-ASCII byte
percent_encode(bytes) ==
    Concat([i \in 1..Len(bytes) |->
               IF is_ascii_alphanumeric(bytes[i])
               THEN <<bytes[i]>>
               ELSE percent_encode_byte(bytes[i])])

(***************************************************************************)
(* url::form_urlencoded::Serializer                                        *)
(***************************************************************************)
\* form_urlencoded::byte_serialize: letters, digits and * - . _ stay, a space
\* becomes '+', every other byte becomes %XX
byte_serialize(bytes) ==
    Concat([i \in 1..Len(bytes) |->
               IF is_ascii_alphanumeric(bytes[i]) \/ bytes[i] \in {42, 45, 46, 95}
               THEN <<bytes[i]>>
               ELSE IF bytes[i] = 32
               THEN <<43>>
               ELSE percent_encode_byte(bytes[i])])

\* Serializer::append_pair: '&' between pairs, name '=' value, both escaped
append_pair(target, name, value) ==
    (IF Len(target) = 0 THEN <<>> ELSE Append(target, 38))
        \o byte_serialize(name) \o <<61>> \o byte_serialize(value)

(***************************************************************************)
(* url::Url: parse, set_query, to_string.  The parser is modelled for      *)
(* announces of the shape scheme ":" ["//" host [":" port]] path           *)
(* ["?" query] ["#" fragment] in printable ASCII, without userinfo, dot    *)
(* segments, IPv6 hosts or the file scheme.                                *)
(***************************************************************************)
SCHEME_http == <<104, 116, 116, 112>>  \* "http"
SCHEME_https == <<104, 116, 116, 112, 115>>  \* "https"
SCHEME_ws == <<119, 115>>  \* "ws"
SCHEME_wss == <<119, 115, 115>>  \* "wss"
SCHEME_ftp == <<102, 116, 112>>  \* "ftp"

\* SchemeType::Special
is_special(scheme) ==
    scheme \in {SCHEME_http, SCHEME_https, SCHEME_ws, SCHEME_wss, SCHEME_ftp}

\* url::parser::default_port; -1 is None
default_port(scheme) ==
    IF scheme \in {SCHEME_http, SCHEME_ws} THEN 80
    ELSE IF scheme \in {SCHEME_https, SCHEME_wss} THEN 443
    ELSE IF scheme = SCHEME_ftp THEN 21
    ELSE -1

\* a scheme is a letter followed by letters, digits, '+', '-' and '.'
is_scheme(s) ==
    /\ Len(s) > 0
    /\ s[1] \in (65..90) \cup (97..122)
    /\ \A i \in 1..Len(s) : is_ascii_alphanumeric(s[i]) \/ s[i] \in {43, 45, 46}

\* the number of leading '/' and '\' of s
RECURSIVE leading_slashes(_)
leading_slashes(s) ==
    IF Len(s) > 0 /\ s[1] \in {47, 92} THEN 1 + leading_slashes(Tail(s)) ELSE 0

\* the url's percent-encode set of a query: C0 controls, space, '"', '#', '<',
\* '>', non-ASCII bytes and, for a special scheme, the apostrophe
in_query_set(b, special) ==
    \/ b < 32
    \/ b > 126
    \/ b \in {32, 34, 35, 60, 62}
    \/ (special /\ b = 39)

\* Parser::parse_query of a query that holds no '#': tab, LF and CR are
\* dropped, the bytes of the query set are escaped
parse_query(q, special) ==
    Concat([i \in 1..Len(q) |->
               IF q[i] \in {9, 10, 13}
               THEN <<>>
               ELSE IF in_query_set(q[i], special)
               THEN percent_encode_byte(q[i])
               ELSE <<q[i]>>])

\* the part of input after the scheme's ':' : authority, path, query, fragment
parse_after_scheme(scheme, rest) ==
    LET special == is_special(scheme)
        slashes == leading_slashes(rest)
        has_host == special \/ (Len(rest) >= 2 /\ rest[1] = 47 /\ rest[2] = 47)
        skip == IF special THEN slashes ELSE IF has_host THEN 2 ELSE 0
        body == SubSeq(rest, skip + 1, Len(rest))
        auth_end == IF has_host
                    THEN Find(body, IF special THEN {47, 92, 63, 35} ELSE {47, 63, 35}, 1)
                    ELSE 1
        authority == SubSeq(body, 1, auth_end - 1)
        colon == FindLast(authority, {58})
        host == [i \in 1..(IF colon = 0 THEN Len(authority) ELSE colon - 1) |->
                    to_ascii_lowercase(authority[i])]
        port_str == IF colon = 0 THEN <<>> ELSE SubSeq(authority, colon + 1, Len(authority))
        port_ok == /\ \A i \in 1..Len(port_str) : is_ascii_digit(port_str[i])
                   /\ Len(port_str) <= 5
                   /\ parse_digits(port_str) <= 65535
        port_num == IF Len(port_str) = 0 THEN -1 ELSE parse_digits(port_str)
        path_end == Find(body, {63, 35}, auth_end)
        raw_path == SubSeq(body, auth_end, path_end - 1)
        path == IF special /\ Len(raw_path) = 0 THEN <<47>> ELSE raw_path
        has_query == path_end <= Len(body) /\ body[path_end] = 63
        query_end == IF has_query THEN Find(body, {35}, path_end) ELSE path_end
        has_fragment == query_end <= Len(body)
    IN  IF has_host /\ special /\ Len(host) = 0
        THEN Err("EmptyHost")
        ELSE IF has_host /\ ~port_ok
        THEN Err("InvalidPort")
        ELSE Ok([scheme |-> scheme,
                 has_host |-> has_host,
                 host |-> host,
                 port |-> IF port_num = default_port(scheme) THEN -1 ELSE port_num,
                 path |-> path,
                 has_query |-> has_query,
                 query |-> IF has_query
                           THEN parse_query(SubSeq(body, path_end + 1, query_end - 1), special)
                           ELSE <<>>,
                 has_fragment |-> has_fragment,
                 fragment |-> SubSeq(body, query_end + 1, Len(body))])

\* Url::parse: an input without a scheme is relative and, with no base, an error
Url_parse(input) ==
    LET colon == Find(input, {58}, 1)
        scheme_raw == SubSeq(input, 1, colon - 1)
    IN  IF colon > Len(input) \/ ~is_scheme(scheme_raw)
        THEN Err("RelativeUrlWithoutBase")
        ELSE parse_after_scheme([i \in 1..Len(scheme_raw) |-> to_ascii_lowercase(scheme_raw[i])],
                                SubSeq(input, colon + 1, Len(input)))

\* a set_query that keeps the query the URL had and appends the new one
set_query_append(url, query) ==
    [url EXCEPT !.has_query = TRUE,
                !.query = (IF url.has_query THEN Append(url.query, 38) ELSE <<>>)
                            \o parse_query(query, is_special(url.scheme))]

\* Url::set_query(Some(query)): the old query goes, the fragment stays
set_query(url, query) ==
    [url EXCEPT !.has_query = TRUE,
                !.query = parse_query(query, is_special(url.scheme))]

\* Url::to_string: the serialization
Url_to_string(url) ==
    url.scheme \o <<58>>
    \o (IF url.has_host
        THEN <<47, 47>> \o url.host
             \o (IF url.port = -1 THEN <<>> ELSE <<58>> \o to_string(url.port))
        ELSE <<>>)
    \o url.path
    \o (IF url.has_query THEN <<63>> \o url.query ELSE <<>>)
    \o (IF url.has_fragment THEN <<35>> \o url.fragment ELSE <<>>)

(***************************************************************************)
(* TorrentFile::build_tracker_url                                          *)
(***************************************************************************)
KEY_info_hash == <<105, 110, 102, 111, 95, 104, 97, 115, 104>>  \* "info_hash"
KEY_peer_id == <<112, 101, 101, 114, 95, 105, 100>>  \* "peer_id"
KEY_port == <<112, 111, 114, 116>>  \* "port"
KEY_uploaded == <<117, 112, 108, 111, 97, 100, 101, 100>>  \* "uploaded"
KEY_downloaded == <<100, 111, 119, 110, 108, 111, 97, 100, 101, 100>>  \* "downloaded"
KEY_compact == <<99, 111, 109, 112, 97, 99, 116>>  \* "compact"
KEY_left == <<108, 101, 102, 116>>  \* "left"
STR_0 == <<48>>  \* "0"
STR_1 == <<49>>  \* "1"

\* the query string the Serializer finishes with
tracker_query(self, peer_id, port) ==
    LET info_hash_enc == percent_encode(self.info_hash)
        peer_id_enc == percent_encode(peer_id)
        q1 == append_pair(<<>>, KEY_info_hash, info_hash_enc)
        q2 == append_pair(q1, KEY_peer_id, peer_id_enc)
        q3 == append_pair(q2, KEY_port, to_string(port))
        q4 == append_pair(q3, KEY_uploaded, STR_0)
        q5 == append_pair(q4, KEY_downloaded, STR_0)
        q6 == append_pair(q5, KEY_compact, STR_1)
    IN  append_pair(q6, KEY_left, to_string(self.length))

\* the error of Url::parse passed on as it is, without with_context
build_tracker_url_no_context(self, peer_id, port) ==
    LET url == Url_parse(self.announce)
    IN  IF url.tag = "err"
        THEN Err([fmt |-> "{}", args |-> <<url.err>>])
        ELSE Ok(Url_to_string(set_query(url.val, tracker_query(self, peer_id, port))))

build_tracker_url(self, peer_id, port) ==
    LET url == Url_parse(self.announce)
    IN  IF url.tag = "err"
        THEN Err([fmt |-> "Invalid announce URL: {}", args |-> <<self.announce>>])
        ELSE Ok(Url_to_string(set_query(url.val, tracker_query(self, peer_id, port))))

(***************************************************************************)
(* bendy::decoding: the tokens of a bencoded buffer and the objects the    *)
(* decoder hands out.  The decoder is lazy: a dictionary is read pair by   *)
(* pair, and an error of the buffer shows only when the reader gets there. *)
(* A value read from position pos of s is a record: err is "" or the kind  *)
(* of the error met, next the position after the value, val the object:    *)
(* an integer with its text, a byte string, a list or a dictionary with    *)
(* the items read before the error.                                        *)
(***************************************************************************)
Some(v) == [tag |-> "some", val |-> v]

\* a bendy::decoding::Error: its kind, and the field a MissingField names
BErr(kind, field) == [kind |-> kind, field |-> field]

NoValue == [type |-> "none"]

\* a < b for byte strings: the order of Rust's slices
LexLess(a, b) ==
    LET D == {i \in 1..Min(Len(a), Len(b)) : a[i] # b[i]}
        d == CHOOSE i \in D : \A j \in D : i <= j
    IN  IF D = {} THEN Len(a) < Len(b) ELSE a[d] < b[d]

USIZE_MAX_TEXT == <<49, 56, 52, 52, 54, 55, 52, 52, 48, 55, 51, 55, 48, 57, 53, 53, 49, 54, 49, 53>>  \* "18446744073709551615"

\* a digit string without leading zeros spells a number above usize::MAX
overflows_usize(digits) ==
    \/ Len(digits) > Len(USIZE_MAX_TEXT)
    \/ (Len(digits) = Len(USIZE_MAX_TEXT) /\ LexLess(USIZE_MAX_TEXT, digits))

\* Decoder::take_int: an optional '-', then "0" or digits that do not start
\* with 0, then the terminator
take_int(s, pos, term) ==
    LET c0 == s[pos]
        dstart == IF c0 = 45 THEN pos + 1 ELSE pos
        j == Find(s, Byte \ (48..57), dstart)
    IN  IF pos > Len(s) THEN [err |-> "UnexpectedEof"]
        ELSE IF c0 # 45 /\ ~is_ascii_digit(c0) THEN [err |-> "Syntax"]
        ELSE IF c0 \in {45, 48} /\ pos + 1 > Len(s) THEN [err |-> "UnexpectedEof"]
        ELSE IF c0 = 45 /\ s[pos + 1] \notin 49..57 THEN [err |-> "Syntax"]
        ELSE IF c0 = 48 /\ s[pos + 1] # term THEN [err |-> "Syntax"]
        ELSE IF j > Len(s) THEN [err |-> "UnexpectedEof"]
        ELSE IF s[j] # term THEN [err |-> "Syntax"]
        ELSE [err |-> "", text |-> SubSeq(s, pos, j - 1), next |-> j + 1]

\* a byte string token: its length, ':', the bytes
take_string(s, pos) ==
    LET n == take_int(s, pos, 58)
    IN  IF n.err # "" THEN [err |-> n.err, next |-> pos, val |-> NoValue]
        ELSE IF overflows_usize(n.text)
        THEN [err |-> "Syntax", next |-> pos, val |-> NoValue]
        ELSE IF Len(n.text) > 9 \/ n.next + parse_digits(n.text) > Len(s) + 1
        THEN [err |-> "UnexpectedEof", next |-> pos, val |-> NoValue]
        ELSE [err |-> "",
              next |-> n.next + parse_digits(n.text),
              val |-> [type |-> "bytes",
                       bytes |-> SubSeq(s, n.next, n.next + parse_digits(n.text) - 1)]]

RECURSIVE ParseValue(_, _)
RECURSIVE ParseListItems(_, _, _)
RECURSIVE ParseDictItems(_, _, _, _)

\* the items of a list from pos on, up to its 'e' or the first error
ParseListItems(s, pos, items) ==
    IF pos > Len(s)
    THEN [err |-> "UnexpectedEof", next |-> pos,
          val |-> [type |-> "list", items |-> items, err |-> "UnexpectedEof"]]
    ELSE IF s[pos] = 101
    THEN [err |-> "", next |-> pos + 1,
          val |-> [type |-> "list", items |-> items, err |-> ""]]
    ELSE LET v == ParseValue(s, pos)
             got == IF v.val.type = "none" THEN items ELSE Append(items, v.val)
         IN  IF v.err # ""
             THEN [err |-> v.err, next |-> v.next,
                   val |-> [type |-> "list", items |-> got, err |-> v.err]]
             ELSE ParseListItems(s, v.next, got)

\* the pairs of a dictionary from pos on, up to its 'e' or the first error;
\* the state tracker wants every key a byte string greater than the key
\* before it (keys holds the keys read so far)
ParseDictItems(s, pos, keys, pairs) ==
    LET stop(e) == [err |-> e, next |-> pos,
                    val |-> [type |-> "dict", pairs |-> pairs, err |-> e]]
    IN  IF pos > Len(s) THEN stop("UnexpectedEof")
        ELSE IF s[pos] = 101
        THEN [err |-> "", next |-> pos + 1,
              val |-> [type |-> "dict", pairs |-> pairs, err |-> ""]]
        ELSE IF s[pos] \in {100, 105, 108} THEN stop("InvalidState")
        ELSE LET k == take_string(s, pos)
             IN  IF k.err # "" THEN stop(k.err)
                 ELSE IF Len(keys) > 0 /\ ~LexLess(keys[Len(keys)], k.val.bytes)
                 THEN stop("UnsortedKeys")
                 ELSE IF k.next <= Len(s) /\ s[k.next] = 101
                 THEN stop("InvalidState")
                 ELSE LET v == ParseValue(s, k.next)
                          got == IF v.val.type = "none"
                                 THEN pairs
                                 ELSE Append(pairs, [key |-> k.val.bytes, value |-> v.val])
                      IN  IF v.err # ""
                          THEN [err |-> v.err, next |-> v.next,
                                val |-> [type |-> "dict", pairs |-> got, err |-> v.err]]
                          ELSE ParseDictItems(s, v.next, Append(keys, k.val.bytes), got)

\* Decoder::next_object: the value that starts at pos
ParseValue(s, pos) ==
    IF pos > Len(s) THEN [err |-> "UnexpectedEof", next |-> pos, val |-> NoValue]
    ELSE IF s[pos] = 105
    THEN LET n == take_int(s, pos + 1, 101)
         IN  IF n.err # ""
             THEN [err |-> n.err, next |-> pos, val |-> NoValue]
             ELSE [err |-> "", next |-> n.next, val |-> [type |-> "int", text |-> n.text]]
    ELSE IF is_ascii_digit(s[pos]) THEN take_string(s, pos)
    ELSE IF s[pos] = 108 THEN ParseListItems(s, pos + 1, <<>>)
    ELSE IF s[pos] = 100 THEN ParseDictItems(s, pos + 1, <<>>, <<>>)
    ELSE IF s[pos] = 101 THEN [err |-> "InvalidState", next |-> pos, val |-> NoValue]
    ELSE [err |-> "Syntax", next |-> pos, val |-> NoValue]

(***************************************************************************)
(* The conversions of the field values                                     *)
(***************************************************************************)
\* str::parse::<usize> of the text of a bencode integer: a '-' is no digit of
\* an unsigned number, and a number above usize::MAX overflows
parse_usize_signed(text) ==
    IF Len(text) > 0 /\ text[1] = 45
    THEN Ok(0 - parse_digits(Tail(text)))
    ELSE Ok(parse_digits(text))

parse_usize(text) ==
    LET digits == IF Len(text) > 0 /\ text[1] = 43 THEN Tail(text) ELSE text
    IN  IF Len(digits) = 0 \/ \E i \in 1..Len(digits) : ~is_ascii_digit(digits[i])
        THEN Err(BErr("MalformedContent", <<>>))
        ELSE IF overflows_usize(digits)
        THEN Err(BErr("MalformedContent", <<>>))
        ELSE Ok(parse_digits(digits))

\* the number of bytes of the UTF-8 sequence that starts at b[i], 0 if none
utf8_len(b, i) ==
    LET cont(j) == j <= Len(b) /\ b[j] \in 128..191
    IN  IF b[i] < 128 THEN 1
        ELSE IF b[i] \in 194..223 /\ cont(i + 1) THEN 2
        ELSE IF /\ b[i] \in 224..239
                /\ cont(i + 1)
                /\ cont(i + 2)
                /\ (b[i] = 224 => b[i + 1] >= 160)
                /\ (b[i] = 237 => b[i + 1] <= 159) THEN 3
        ELSE IF /\ b[i] \in 240..244
                /\ cont(i + 1)
                /\ cont(i + 2)
                /\ cont(i + 3)
                /\ (b[i] = 240 => b[i + 1] >= 144)
                /\ (b[i] = 244 => b[i + 1] <= 143) THEN 4
        ELSE 0

RECURSIVE is_utf8_from(_, _)
is_utf8_from(b, i) ==
    \/ i > Len(b)
    \/ (utf8_len(b, i) > 0 /\ is_utf8_from(b, i + utf8_len(b, i)))

\* String::from_utf8: the text keeps the bytes
from_utf8(b) ==
    IF is_utf8_from(b, 1) THEN Ok(b) ELSE Err(BErr("MalformedContent", <<>>))

(***************************************************************************)
(* BencodeInfo::decode_bencode_object                                      *)
(***************************************************************************)
KEY_pieces == <<112, 105, 101, 99, 101, 115>>  \* "pieces"
KEY_piece_length == <<112, 105, 101, 99, 101, 32, 108, 101, 110, 103, 116, 104>>  \* "piece length"
KEY_length == <<108, 101, 110, 103, 116, 104>>  \* "length"
KEY_name == <<110, 97, 109, 101>>  \* "name"
KEY_announce == <<97, 110, 110, 111, 117, 110, 99, 101>>  \* "announce"
KEY_info == <<105, 110, 102, 111>>  \* "info"

\* one turn of the while loop: the match on the key.  st holds the four
\* Options and err, the error a `?` returned with
info_pair(st, key, value) ==
    IF key = KEY_pieces
    THEN IF value.type = "bytes"
         THEN [st EXCEPT !.pieces = Some(value.bytes)]
         ELSE [st EXCEPT !.err = Some(BErr("UnexpectedToken", <<>>))]
    ELSE IF key = KEY_piece_length
    THEN IF value.type # "int"
         THEN [st EXCEPT !.err = Some(BErr("UnexpectedToken", <<>>))]
         ELSE IF parse_usize(value.text).tag = "err"
         THEN [st EXCEPT !.err = Some(parse_usize(value.text).err)]
         ELSE [st EXCEPT !.piece_length = Some(parse_usize(value.text).val)]
    ELSE IF key = KEY_length
    THEN IF value.type # "int"
         THEN [st EXCEPT !.err = Some(BErr("UnexpectedToken", <<>>))]
         ELSE IF parse_usize(value.text).tag = "err"
         THEN [st EXCEPT !.err = Some(parse_usize(value.text).err)]
         ELSE [st EXCEPT !.length = Some(parse_usize(value.text).val)]
    ELSE IF key = KEY_name
    THEN IF value.type # "bytes"
         THEN [st EXCEPT !.err = Some(BErr("UnexpectedToken", <<>>))]
         ELSE IF from_utf8(value.bytes).tag = "err"
         THEN [st EXCEPT !.err = Some(from_utf8(value.bytes).err)]
         ELSE [st EXCEPT !.name = Some(from_utf8(value.bytes).val)]
    ELSE st

\* while let Some((key, value)) = dict.next_pair()? { ... }, from pair i on
RECURSIVE info_loop(_, _, _)
info_loop(dict, i, st) ==
    IF st.err # None THEN st
    ELSE IF i > Len(dict.pairs)
    THEN IF dict.err # "" THEN [st EXCEPT !.err = Some(BErr(dict.err, <<>>))] ELSE st
    ELSE info_loop(dict, i + 1, info_pair(st, dict.pairs[i].key, dict.pairs[i].value))

\* the Ok(Self { .. }) that takes the four Options as they are
info_record_unchecked(st) ==
    Ok([pieces |-> IF st.pieces = None THEN <<>> ELSE st.pieces.val,
        piece_length |-> IF st.piece_length = None THEN 0 ELSE st.piece_length.val,
        length |-> IF st.length = None THEN 0 ELSE st.length.val,
        name |-> IF st.name = None THEN <<>> ELSE st.name.val])

\* Ok(Self { pieces: pieces.ok_or_else(..)?, .. }): the first Option that is
\* None, in the order pieces, piece length, length, name, is the error
info_record(st) ==
    IF st.pieces = None THEN Err(BErr("MissingField", KEY_pieces))
    ELSE IF st.piece_length = None THEN Err(BErr("MissingField", KEY_piece_length))
    ELSE IF st.length = None THEN Err(BErr("MissingField", KEY_length))
    ELSE IF st.name = None THEN Err(BErr("MissingField", KEY_name))
    ELSE Ok([pieces |-> st.pieces.val,
             piece_length |-> st.piece_length.val,
             length |-> st.length.val,
             name |-> st.name.val])

BencodeInfo_decode_bencode_object(object) ==
    IF object.type # "dict"
    THEN Err(BErr("UnexpectedToken", <<>>))
    ELSE LET st == info_loop(object, 1,
                             [pieces |-> None, piece_length |-> None, length |-> None,
                              name |-> None, err |-> None])
         IN  IF st.err # None THEN Err(st.err.val) ELSE info_record(st)

(***************************************************************************)
(* BencodeTorrent::decode_bencode_object                                   *)
(***************************************************************************)
\* the match with an arm that refuses every other key
torrent_pair_strict(st, key, value) ==
    IF key = KEY_announce
    THEN IF value.type # "bytes"
         THEN [st EXCEPT !.err = Some(BErr("UnexpectedToken", <<>>))]
         ELSE IF from_utf8(value.bytes).tag = "err"
         THEN [st EXCEPT !.err = Some(from_utf8(value.bytes).err)]
         ELSE [st EXCEPT !.announce = Some(from_utf8(value.bytes).val)]
    ELSE IF key = KEY_info
    THEN IF BencodeInfo_decode_bencode_object(value).tag = "err"
         THEN [st EXCEPT !.err = Some(BencodeInfo_decode_bencode_object(value).err)]
         ELSE [st EXCEPT !.info = Some(BencodeInfo_decode_bencode_object(value).val)]
    ELSE [st EXCEPT !.err = Some(BErr("UnexpectedToken", <<>>))]

torrent_pair(st, key, value) ==
    IF key = KEY_announce
    THEN IF value.type # "bytes"
         THEN [st EXCEPT !.err = Some(BErr("UnexpectedToken", <<>>))]
         ELSE IF from_utf8(value.bytes).tag = "err"
         THEN [st EXCEPT !.err = Some(from_utf8(value.bytes).err)]
         ELSE [st EXCEPT !.announce = Some(from_utf8(value.bytes).val)]
    ELSE IF key = KEY_info
    THEN IF BencodeInfo_decode_bencode_object(value).tag = "err"
         THEN [st EXCEPT !.err = Some(BencodeInfo_decode_bencode_object(value).err)]
         ELSE [st EXCEPT !.info = Some(BencodeInfo_decode_bencode_object(value).val)]
    ELSE st

RECURSIVE torrent_loop(_, _, _)
torrent_loop(dict, i, st) ==
    IF st.err # None THEN st
    ELSE IF i > Len(dict.pairs)
    THEN IF dict.err # "" THEN [st EXCEPT !.err = Some(BErr(dict.err, <<>>))] ELSE st
    ELSE torrent_loop(dict, i + 1, torrent_pair(st, dict.pairs[i].key, dict.pairs[i].value))

torrent_record(st) ==
    IF st.announce = None THEN Err(BErr("MissingField", KEY_announce))
    ELSE IF st.info = None THEN Err(BErr("MissingField", KEY_info))
    ELSE Ok([announce |-> st.announce.val, info |-> st.info.val])

BencodeTorrent_decode_bencode_object(object) ==
    IF object.type # "dict"
    THEN Err(BErr("UnexpectedToken", <<>>))
    ELSE LET st == torrent_loop(object, 1, [announce |-> None, info |-> None, err |-> None])
         IN  IF st.err # None THEN Err(st.err.val) ELSE torrent_record(st)

(***************************************************************************)
(* FromBencode::from_bencode: the first object of the buffer, decoded      *)
(***************************************************************************)
\* the object the decoder hands to decode_bencode_object, or the error of its
\* first token
first_object(bytes) ==
    LET v == ParseValue(bytes, 1)
    IN  IF v.val.type = "none" THEN Err(BErr(v.err, <<>>)) ELSE Ok(v.val)

BencodeInfo_from_bencode(bytes) ==
    IF first_object(bytes).tag = "err"
    THEN first_object(bytes)
    ELSE BencodeInfo_decode_bencode_object(first_object(bytes).val)

BencodeTorrent_from_bencode(bytes) ==
    IF first_object(bytes).tag = "err"
    THEN first_object(bytes)
    ELSE BencodeTorrent_decode_bencode_object(first_object(bytes).val)

(***************************************************************************)
(* sha1::Sha1::digest (FIPS 180-4).  A 32-bit word is the pair <<high,     *)
(* low>> of its 16-bit halves, so that every sum stays below 2^31.         *)
(***************************************************************************)
\* the AND of two 4-bit numbers x and y, at index 16 * x + y
And4Table ==
    [k \in 0..255 |->
        LET x == k \div 16
            y == k % 16
        IN  (x % 2) * (y % 2)
            + 2 * ((x \div 2) % 2) * ((y \div 2) % 2)
            + 4 * ((x \div 4) % 2) * ((y \div 4) % 2)
            + 8 * (x \div 8) * (y \div 8)]

and16(a, b) ==
    4096 * And4Table[16 * (a \div 4096) + (b \div 4096)]
    + 256 * And4Table[16 * ((a \div 256) % 16) + ((b \div 256) % 16)]
    + 16 * And4Table[16 * ((a \div 16) % 16) + ((b \div 16) % 16)]
    + And4Table[16 * (a % 16) + (b % 16)]

or16(a, b) == a + b - and16(a, b)
xor16(a, b) == a + b - 2 * and16(a, b)
not16(a) == 65535 - a

w_and(x, y) == <<and16(x[1], y[1]), and16(x[2], y[2])>>
w_or(x, y) == <<or16(x[1], y[1]), or16(x[2], y[2])>>
w_xor(x, y) == <<xor16(x[1], y[1]), xor16(x[2], y[2])>>
w_not(x) == <<not16(x[1]), not16(x[2])>>

\* addition modulo 2^32
w_add(x, y) ==
    <<(x[1] + y[1] + ((x[2] + y[2]) \div 65536)) % 65536, (x[2] + y[2]) % 65536>>

\* rotation to the left by 1, 5 and 30 bits
rotl1(x) ==
    <<((x[1] * 2) % 65536) + (x[2] \div 32768), ((x[2] * 2) % 65536) + (x[1] \div 32768)>>
rotl5(x) ==
    <<((x[1] * 32) % 65536) + (x[2] \div 2048), ((x[2] * 32) % 65536) + (x[1] \div 2048)>>
rotl30(x) ==
    <<((x[2] * 16384) % 65536) + (x[1] \div 4), ((x[1] * 16384) % 65536) + (x[2] \div 4)>>

\* the message, the byte 0x80, zeros up to 56 modulo 64, the bit length in
\* eight bytes, big-endian
sha1_pad(msg) ==
    LET n == Len(msg)
        zeros == (119 - (n % 64)) % 64
        bits == 8 * n
    IN  msg \o <<128>> \o [i \in 1..zeros |-> 0]
            \o <<0, 0, 0, 0, bits \div 16777216, (bits \div 65536) % 256,
                 (bits \div 256) % 256, bits % 256>>

\* the 16 words of block k (from 0) of the padded message
sha1_block(padded, k) ==
    [t \in 1..16 |->
        <<256 * padded[64 * k + 4 * t - 3] + padded[64 * k + 4 * t - 2],
          256 * padded[64 * k + 4 * t - 1] + padded[64 * k + 4 * t]>>]

\* the message schedule, extended by n words:
\* w[t] = rotl1(w[t-3] ^ w[t-8] ^ w[t-14] ^ w[t-16]).  The first half is
\* computed before the second is started, which keeps the evaluation shallow.
RECURSIVE sha1_schedule(_, _)
sha1_schedule(w, n) ==
    IF n = 1
    THEN LET t == Len(w) + 1
         IN  Append(w, rotl1(w_xor(w_xor(w[t - 3], w[t - 8]), w_xor(w[t - 14], w[t - 16]))))
    ELSE LET first == sha1_schedule(w, n \div 2)
         IN  IF Len(first) = Len(w) + (n \div 2)
             THEN sha1_schedule(first, n - (n \div 2))
             ELSE first

sha1_f(t, b, c, d) ==
    IF t < 20 THEN w_or(w_and(b, c), w_and(w_not(b), d))
    ELSE IF t < 40 THEN w_xor(w_xor(b, c), d)
    ELSE IF t < 60 THEN w_or(w_or(w_and(b, c), w_and(b, d)), w_and(c, d))
    ELSE w_xor(w_xor(b, c), d)

sha1_k(t) ==
    IF t < 20 THEN <<23170, 31129>>
    ELSE IF t < 40 THEN <<28377, 60321>>
    ELSE IF t < 60 THEN <<36635, 48348>>
    ELSE <<51810, 49622>>

\* round t (from 0) on the working variables st = <<a, b, c, d, e>>
sha1_round(st, t, w) ==
    <<w_add(w_add(w_add(rotl5(st[1]), sha1_f(t, st[2], st[3], st[4])),
                  w_add(st[5], sha1_k(t))),
            w[t + 1]),
      st[1], rotl30(st[2]), st[3], st[4]>>

\* rounds lo..hi, the first half before the second
RECURSIVE sha1_rounds(_, _, _, _)
sha1_rounds(st, lo, hi, w) ==
    IF lo = hi
    THEN sha1_round(st, lo, w)
    ELSE LET mid == (lo + hi) \div 2
             first == sha1_rounds(st, lo, mid, w)
         IN  IF Len(first) = 5 THEN sha1_rounds(first, mid + 1, hi, w) ELSE first

sha1_compress(h, block) ==
    LET w == sha1_schedule(block, 64)
        st == IF Len(w) = 80 THEN sha1_rounds(h, 0, 79, w) ELSE h
    IN  [i \in 1..5 |-> w_add(h[i], st[i])]

RECURSIVE sha1_blocks(_, _, _)
sha1_blocks(h, padded, k) ==
    IF 64 * k >= Len(padded)
    THEN h
    ELSE sha1_blocks(sha1_compress(h, sha1_block(padded, k)), padded, k + 1)

Sha1_digest(msg) ==
    LET h == sha1_blocks(<<<<26437, 8961>>, <<61389, 43913>>, <<39098, 56574>>,
                           <<4146, 21622>>, <<50130, 57840>>>>, sha1_pad(msg), 0)
    IN  [i \in 1..20 |->
            LET half == h[(i + 3) \div 4][((i - 1) % 4) \div 2 + 1]
            IN  IF i % 2 = 1 THEN half \div 256 ELSE half % 256]

(***************************************************************************)
(* BencodeInfo::hash and TorrentFile::try_from                             *)
(***************************************************************************)
\* format!("{}:{}", key.len(), key)
encode_key(key) == to_string(Len(key)) \o <<58>> \o key

\* the field written with its key alone
encode_str_field_key_only(buf, key, value) == buf \o encode_key(key)

encode_str_field(buf, key, value) ==
    buf \o encode_key(key) \o to_string(Len(value)) \o <<58>> \o value

\* the number written as a byte string
encode_int_field_as_bytes(buf, key, value) ==
    buf \o encode_key(key) \o to_string(Len(to_string(value))) \o <<58>> \o to_string(value)

encode_int_field(buf, key, value) ==
    buf \o encode_key(key) \o <<105>> \o to_string(value) \o <<101>>

encode_bytes_field(buf, key, bytes) ==
    buf \o encode_key(key) \o to_string(Len(bytes)) \o <<58>> \o bytes

\* the fields written in the order of the struct
hash_buf_struct_order(info) ==
    encode_str_field(
        encode_int_field(
            encode_int_field(
                encode_bytes_field(<<100>>, KEY_pieces, info.pieces),
                KEY_piece_length, info.piece_length),
            KEY_length, info.length),
        KEY_name, info.name) \o <<101>>

\* the buffer BencodeInfo::hash digests: the dictionary with the keys length,
\* name, piece length, pieces, in this order
hash_buf(info) ==
    encode_bytes_field(
        encode_int_field(
            encode_str_field(
                encode_int_field(<<100>>, KEY_length, info.length),
                KEY_name, info.name),
            KEY_piece_length, info.piece_length),
        KEY_pieces, info.pieces) \o <<101>>

hash(info) == Ok(Sha1_digest(hash_buf(info)))

\* a descriptor without piece hashes where split_pieces_hashes fails
TorrentFile_try_from_partial(value) ==
    LET piece_hashes == split_pieces_hashes(value.info)
    IN  Ok([announce |-> value.announce,
            info_hash |-> hash(value.info).val,
            piece_hashes |-> IF piece_hashes.tag = "ok" THEN piece_hashes.val ELSE <<>>,
            piece_length |-> value.info.piece_length,
            length |-> value.info.length,
            name |-> value.info.name])

\* the fields are evaluated in the order written: hash()? and then
\* split_pieces_hashes()?
TorrentFile_try_from(value) ==
    LET info_hash == hash(value.info)
        piece_hashes == split_pieces_hashes(value.info)
    IN  IF info_hash.tag = "err" THEN info_hash
        ELSE IF piece_hashes.tag = "err" THEN piece_hashes
        ELSE Ok([announce |-> value.announce,
                 info_hash |-> info_hash.val,
                 piece_hashes |-> piece_hashes.val,
                 piece_length |-> value.info.piece_length,
                 length |-> value.info.length,
                 name |-> value.info.name])

(***************************************************************************)
(* The terminal interface: Model, view, handle_event, handle_key, update.  *)
(* An Instant is a number of ticks; a tick is the timeout of event::poll.  *)
(***************************************************************************)
POLL_MILLIS == 250
EXIT_MESSAGE_SECS == 3
DOUBLE_CTRL_C_SECS == 2

\* Duration::from_millis(n) and Duration::from_secs(n), in ticks
from_millis(n) == n \div POLL_MILLIS
from_secs(n) == from_millis(1000 * n)

\* Model::default()
Model_default ==
    [running_state |-> "Running", last_ctrl_c |-> None, show_exit_message |-> FALSE]

\* Instant::elapsed at the time t
elapsed(instant, t) == t - instant

\* a key event, another event of the terminal, and poll returning false
KeyEvent(code, ctrl, kind) == [type |-> "key", code |-> code, ctrl |-> ctrl, kind |-> kind]
ResizeEvent == [type |-> "resize"]
NoEvent == [type |-> "none"]

\* the second Ctrl+C quits whatever the time since the first
handle_key_no_window(key, m, t) ==
    IF key.code = "q" THEN Some("Quit")
    ELSE IF key.code = "c" /\ key.ctrl
    THEN IF m.last_ctrl_c # None THEN Some("Quit") ELSE Some("CtrlC")
    ELSE IF m.show_exit_message THEN Some("ClearExitMessage") ELSE None

\* handle_key at the time t
handle_key(key, m, t) ==
    IF key.code = "q" THEN Some("Quit")
    ELSE IF key.code = "c" /\ key.ctrl
    THEN IF m.last_ctrl_c # None /\ elapsed(m.last_ctrl_c.val, t) < from_secs(DOUBLE_CTRL_C_SECS)
         THEN Some("Quit")
         ELSE Some("CtrlC")
    ELSE IF m.show_exit_message THEN Some("ClearExitMessage") ELSE None

\* the first test of handle_event, at the time t
exit_message_expired(m, t) ==
    /\ m.show_exit_message
    /\ m.last_ctrl_c # None
    /\ elapsed(m.last_ctrl_c.val, t) > from_secs(EXIT_MESSAGE_SECS)

\* handle_event that starts at the time t and whose poll returns ev at the
\* time t_ev
handle_event(m, t, ev, t_ev) ==
    IF exit_message_expired(m, t) THEN Some("ClearExitMessage")
    ELSE IF ev.type = "key" /\ ev.kind = "Press" THEN handle_key(ev, m, t_ev)
    ELSE None

\* ClearExitMessage hides the message and keeps the time
update_keep_time(m, msg, t) ==
    IF msg = "Quit" THEN [m EXCEPT !.running_state = "Done"]
    ELSE IF msg = "CtrlC"
    THEN [m EXCEPT !.last_ctrl_c = Some(t), !.show_exit_message = TRUE]
    ELSE [m EXCEPT !.show_exit_message = FALSE]

\* the Model after update(&mut model, msg) at the time t; update returns None
update(m, msg, t) ==
    IF msg = "Quit" THEN [m EXCEPT !.running_state = "Done"]
    ELSE IF msg = "CtrlC"
    THEN [m EXCEPT !.last_ctrl_c = Some(t), !.show_exit_message = TRUE]
    ELSE [m EXCEPT !.show_exit_message = FALSE, !.last_ctrl_c = None]

(***************************************************************************)
(* ConfirmationPopup.  A call that takes &mut self gives the record self,  *)
(* the popup after the call, and ret, what the call returned.              *)
(***************************************************************************)
ConfirmationPopup_new(title, content) ==
    [title |-> title, content |-> content, yes_label |-> "Yes", no_label |-> "No",
     selected |-> "No", visible |-> FALSE]

\* show that keeps the selection
ConfirmationPopup_show_keep(self) == [self EXCEPT !.visible = TRUE]

ConfirmationPopup_show(self) == [self EXCEPT !.visible = TRUE, !.selected = "No"]

ConfirmationPopup_hide(self) == [self EXCEPT !.visible = FALSE]

ConfirmationPopup_is_visible(self) == self.visible

ConfirmationPopup_update(self, msg) ==
    IF msg = "ToggleChoice"
    THEN [self |-> [self EXCEPT !.selected = IF @ = "Yes" THEN "No" ELSE "Yes"],
          ret |-> None]
    ELSE IF msg = "Confirm"
    THEN [self |-> [self EXCEPT !.visible = FALSE],
          ret |-> Some(IF self.selected = "Yes" THEN "Yes" ELSE "No")]
    ELSE [self |-> [self EXCEPT !.visible = FALSE], ret |-> Some("Cancelled")]

ConfirmationPopup_handle_key(self, key) ==
    IF ~self.visible THEN [self |-> self, ret |-> None]
    ELSE IF key.code \in {"Left", "Right", "h", "l", "Tab"}
    THEN [self |-> self, ret |-> Some("ToggleChoice")]
    ELSE IF key.code \in {"y", "Y"}
    THEN [self |-> [self EXCEPT !.selected = "Yes"], ret |-> Some("Confirm")]
    ELSE IF key.code \in {"n", "N"}
    THEN [self |-> [self EXCEPT !.selected = "No"], ret |-> Some("Confirm")]
    ELSE IF key.code = "Enter" THEN [self |-> self, ret |-> Some("Confirm")]
    ELSE IF key.code = "Esc" THEN [self |-> self, ret |-> Some("Cancel")]
    ELSE IF key.code = "c" /\ key.ctrl THEN [self |-> self, ret |-> Some("Cancel")]
    ELSE [self |-> self, ret |-> None]

(***************************************************************************)
(* The bounded inputs                                                      *)
(***************************************************************************)
MaxPeersLen == 13
MaxPiecesLen == 41

RunStarts == {0, 1, 200}
RunSteps == {1, 7, 85}

PeersInputs ==
    {ByteRun(a, d, n) : a \in RunStarts, d \in RunSteps, n \in 0..MaxPeersLen}

PiecesInputs ==
    {ByteRun(a, d, n) : a \in RunStarts, d \in RunSteps, n \in 0..MaxPiecesLen}

\* name "test" and the numbers of the unit tests' BencodeInfo literals
TestName == <<116, 101, 115, 116>>

InfoInputs ==
    {[pieces |-> p, piece_length |-> 262144, length |-> 12345, name |-> TestName] :
        p \in PiecesInputs}

\* the 20-byte arrays of the unit tests ([65; 20], 1..20, [0; 20], [255; 20],
\* the array of build_tracker_url_encoding) and the run 40..59, which holds
\* the bytes * - . that the form serializer leaves alone
EncodingTestBytes ==
    <<0, 32, 127, 128, 255, 10, 13, 37, 38, 63, 35, 43, 61, 47, 92, 34, 39, 60, 62, 124>>

HashInputs ==
    {ByteRun(65, 0, HASH_LEN), ByteRun(1, 1, HASH_LEN), ByteRun(0, 0, HASH_LEN),
     ByteRun(255, 0, HASH_LEN), ByteRun(40, 1, HASH_LEN), EncodingTestBytes}

PortInputs == {1, 6881, 65535}

LengthInputs == {0, 1000000}

ANNOUNCE_example == <<104, 116, 116, 112, 58, 47, 47, 116, 114, 97, 99, 107, 101, 114, 46, 101, 120, 97, 109, 112, 108, 101, 46, 99, 111, 109, 47, 97, 110, 110, 111, 117, 110, 99, 101>>  \* "http://tracker.example.com/announce"
ANNOUNCE_https == <<104, 116, 116, 112, 115, 58, 47, 47, 115, 101, 99, 117, 114, 101, 46, 116, 114, 97, 99, 107, 101, 114, 46, 99, 111, 109>>  \* "https://secure.tracker.com"
ANNOUNCE_query == <<104, 116, 116, 112, 58, 47, 47, 116, 46, 99, 111, 47, 97, 63, 107, 101, 121, 61, 97, 98, 99, 38, 120, 61, 49>>  \* "http://t.co/a?key=abc&x=1"
ANNOUNCE_query_fragment == <<104, 116, 116, 112, 58, 47, 47, 116, 46, 99, 111, 47, 97, 63, 107, 61, 118, 35, 102, 114, 97, 103>>  \* "http://t.co/a?k=v#frag"
ANNOUNCE_fragment == <<104, 116, 116, 112, 58, 47, 47, 116, 46, 99, 111, 47, 97, 35, 102, 114, 97, 103>>  \* "http://t.co/a#frag"
ANNOUNCE_default_port == <<72, 84, 84, 80, 58, 47, 47, 84, 46, 99, 111, 58, 56, 48, 47, 97>>  \* "HTTP://T.co:80/a"
ANNOUNCE_port == <<104, 116, 116, 112, 58, 47, 47, 116, 46, 99, 111, 58, 54, 57, 54, 57, 47, 97, 110, 110, 111, 117, 110, 99, 101>>  \* "http://t.co:6969/announce"
ANNOUNCE_udp == <<117, 100, 112, 58, 47, 47, 116, 46, 99, 111, 58, 54, 57, 54, 57>>  \* "udp://t.co:6969"
ANNOUNCE_invalid == <<110, 111, 116, 45, 97, 45, 118, 97, 108, 105, 100, 45, 117, 114, 108>>  \* "not-a-valid-url"
ANNOUNCE_no_host == <<104, 116, 116, 112, 58, 47, 47>>  \* "http://"
ANNOUNCE_bad_port == <<104, 116, 116, 112, 58, 47, 47, 116, 46, 99, 111, 58, 112, 111, 114, 116, 47, 97>>  \* "http://t.co:port/a"

AnnounceInputs ==
    {ANNOUNCE_example, ANNOUNCE_https, ANNOUNCE_query, ANNOUNCE_query_fragment,
     ANNOUNCE_fragment, ANNOUNCE_default_port, ANNOUNCE_port, ANNOUNCE_udp,
     ANNOUNCE_invalid, ANNOUNCE_no_host, ANNOUNCE_bad_port}

\* create_test_torrent_file of the unit tests, with the fields the URL
\* builder reads drawn from the input sets
TorrentFileInputs ==
    {[announce |-> a, info_hash |-> h, piece_hashes |-> <<ByteRun(21, 1, HASH_LEN)>>,
      piece_length |-> 262144, length |-> n, name |-> TestName] :
        a \in AnnounceInputs, h \in HashInputs, n \in LengthInputs}


(***************************************************************************)
(* The bencoded documents of the bounded checks, written as the unit       *)
(* tests' byte literals are: a dictionary is 'd', its entries, 'e'         *)
(***************************************************************************)
Bstr(b) == to_string(Len(b)) \o <<58>> \o b
Bint(text) == <<105>> \o text \o <<101>>
Entry(key, value) == Bstr(key) \o value
Bdict(entries) == <<100>> \o Concat(entries) \o <<101>>

MaxDocPieces == 2

KEY_private == <<112, 114, 105, 118, 97, 116, 101>>  \* "private"
KEY_comment == <<99, 111, 109, 109, 101, 110, 116>>  \* "comment"
KEY_files == <<102, 105, 108, 101, 115>>  \* "files"
TRACKER == <<104, 116, 116, 112, 58, 47, 47, 116, 114, 97, 99, 107, 101, 114>>  \* "http://tracker"

\* "abcdefghijklmnopqrst" and on, as in the tests
DocPieces(n) == ByteRun(97, 1, n)

\* an absent entry is the empty string
LengthEntries ==
    {<<>>} \cup {Entry(KEY_length, Bint(t)) : t \in {<<48>>, <<49, 50, 51, 52, 53>>, <<45, 49>>}}
NameEntries == {<<>>, Entry(KEY_name, Bstr(TestName))}
PieceLengthEntries ==
    {<<>>} \cup {Entry(KEY_piece_length, Bint(t)) : t \in {<<48>>, <<49>>, <<45, 49>>}}
PiecesEntries ==
    {<<>>} \cup {Entry(KEY_pieces, Bstr(DocPieces(n))) :
                    n \in {19} \cup {HASH_LEN * k : k \in 1..MaxDocPieces}}
PrivateEntries == {<<>>, Entry(KEY_private, Bint(<<49>>))}

\* info dictionaries with their keys in order: every choice of present and
\* absent keys, valid and invalid numbers, with and without an unknown key
SortedInfoDocs ==
    {Bdict(<<l, n, pl, p, x>>) :
        l \in LengthEntries, n \in NameEntries, pl \in PieceLengthEntries,
        p \in PiecesEntries, x \in PrivateEntries}

E_length == Entry(KEY_length, Bint(<<49, 50, 51, 52, 53>>))
E_name == Entry(KEY_name, Bstr(TestName))
E_piece_length == Entry(KEY_piece_length, Bint(<<50, 54, 50, 49, 52, 52>>))
E_pieces == Entry(KEY_pieces, Bstr(DocPieces(HASH_LEN)))

\* INFO_OK of the tests
INFO_OK == Bdict(<<E_length, E_name, E_piece_length, E_pieces>>)

\* info documents that are odd in one way each
OddInfoDocs ==
    {INFO_OK,
     \* keys out of order, and a key twice
     Bdict(<<E_pieces, E_length, E_name, E_piece_length>>),
     Bdict(<<E_length, E_length, E_name, E_piece_length, E_pieces>>),
     \* values of the wrong type
     Bdict(<<E_length, E_name, E_piece_length, Entry(KEY_pieces, Bint(<<50, 48>>))>>),
     Bdict(<<Entry(KEY_length, Bstr(<<49, 50, 51, 52, 53>>)), E_name, E_piece_length, E_pieces>>),
     Bdict(<<E_length, Entry(KEY_name, <<108, 101>>), E_piece_length, E_pieces>>),
     \* a name that is no UTF-8, and one of two bytes that is
     Bdict(<<E_length, Entry(KEY_name, Bstr(<<255>>)), E_piece_length, E_pieces>>),
     Bdict(<<E_length, Entry(KEY_name, Bstr(<<195, 169>>)), E_piece_length, E_pieces>>),
     \* a length above usize::MAX, a leading zero, a minus zero
     Bdict(<<Entry(KEY_length, Bint(<<57, 57, 57, 57, 57, 57, 57, 57, 57, 57, 57, 57, 57, 57, 57, 57, 57, 57, 57, 57>>)), E_name, E_piece_length, E_pieces>>),
     Bdict(<<Entry(KEY_length, Bint(<<48, 49, 50>>)), E_name, E_piece_length, E_pieces>>),
     Bdict(<<Entry(KEY_length, Bint(<<45, 48>>)), E_name, E_piece_length, E_pieces>>),
     \* an invalid length and, after it, no pieces
     Bdict(<<Entry(KEY_length, Bint(<<45, 49>>)), E_name, E_piece_length>>),
     \* unknown keys that hold a list and a dictionary
     Bdict(<<Entry(KEY_files, <<108>> \o Bint(<<49>>) \o Bdict(<<E_name>>) \o <<101>>),
             E_length, E_name, E_piece_length, E_pieces>>),
     \* no pieces at all, cut short, not a dictionary, empty
     Bdict(<<E_length, E_name, E_piece_length, Entry(KEY_pieces, Bstr(<<>>))>>),
     SubSeq(INFO_OK, 1, Len(INFO_OK) - 1),
     SubSeq(INFO_OK, 1, Len(INFO_OK) - 5),
     Bint(<<49>>),
     <<101>>,
     <<>>}

InfoDocs == SortedInfoDocs \cup OddInfoDocs

AnnounceEntries == {<<>>, Entry(KEY_announce, Bstr(TRACKER))}

E_announce == Entry(KEY_announce, Bstr(TRACKER))
E_info == Entry(KEY_info, INFO_OK)

OddTorrentDocs ==
    {Bdict(<<E_announce>>),
     Bdict(<<>>),
     Bdict(<<E_info, E_announce>>),
     Bdict(<<E_announce, Entry(KEY_comment, Bstr(TestName)), E_info>>),
     Bdict(<<Entry(KEY_announce, Bint(<<49>>)), E_info>>),
     Bdict(<<Entry(KEY_announce, Bstr(<<255>>)), E_info>>),
     Bdict(<<Entry(KEY_announce, Bstr(ANNOUNCE_invalid)), E_info>>),
     Bdict(<<E_announce, Entry(KEY_info, Bstr(INFO_OK))>>),
     \* announces that are empty, without a host, with a query of their own
     Bdict(<<Entry(KEY_announce, Bstr(<<>>)), E_info>>),
     Bdict(<<Entry(KEY_announce, Bstr(ANNOUNCE_no_host)), E_info>>),
     Bdict(<<Entry(KEY_announce, Bstr(ANNOUNCE_query)), E_info>>)}

\* TORRENT_OK of the tests is Bdict(<<E_announce, E_info>>)
TorrentDocs ==
    {Bdict(<<a, Entry(KEY_info, i)>>) : a \in AnnounceEntries, i \in InfoDocs}
        \cup OddTorrentDocs

DocInputs == InfoDocs \cup TorrentDocs

\* the BencodeInfo values hash is called on: names that are empty, the tests'
\* "test", two bytes of UTF-8 ("\u00e9") and text that reads as bencode
\* ("4:name"); numbers of one and of several digits; pieces of no, 19, 20 and
\* more bytes
HashNames == {<<>>, TestName, <<195, 169>>, <<52, 58, 110, 97, 109, 101>>}
HashNumbers == {0, 9, 12345}
HashPieceLengths == {1, 262144}
HashPieces == {DocPieces(n) : n \in {0, 19} \cup {HASH_LEN * k : k \in 1..MaxDocPieces}}

HashInfoInputs ==
    {[pieces |-> p, piece_length |-> pl, length |-> l, name |-> n] :
        p \in HashPieces, pl \in HashPieceLengths, l \in HashNumbers, n \in HashNames}

\* the four fields, and info with one of them changed
FIELDS == {"name", "length", "piece_length", "pieces"}

Changed(info, field) ==
    IF field = "name" THEN [info EXCEPT !.name = Append(@, 120)]
    ELSE IF field = "length" THEN [info EXCEPT !.length = @ + 1]
    ELSE IF field = "piece_length" THEN [info EXCEPT !.piece_length = @ + 1]
    ELSE [info EXCEPT !.pieces = Append(@, 0)]

\* the clock stops the bounded check at MaxNow ticks
MaxNow == 30

\* 'q', 'c' and another key, with and without Ctrl, pressed and released;
\* another event; no event within the timeout
KeyCodes == {"q", "c", "x"}
Events ==
    {KeyEvent(code, ctrl, kind) :
        code \in KeyCodes, ctrl \in BOOLEAN, kind \in {"Press", "Release"}}
        \cup {ResizeEvent, NoEvent}

Messages == {"Quit", "CtrlC", "ClearExitMessage"}

\* the keys ConfirmationPopup::handle_key names, 'c' and another key, each
\* with and without Ctrl
PopupKeyCodes ==
    {"Left", "Right", "h", "l", "Tab", "y", "Y", "n", "N", "Enter", "Esc", "c", "x"}
PopupKeys == {KeyEvent(code, ctrl, "Press") : code \in PopupKeyCodes, ctrl \in BOOLEAN}

ConfirmationMessages == {"Confirm", "Cancel", "ToggleChoice"}

PopupTitles == {"Confirm Exit", "Remove torrent"}
PopupContents == {"Are you sure?"}

(***************************************************************************)
(* A part of the model no call has touched                                 *)
(***************************************************************************)
IdlePeers == peers_bin = <<>> /\ peers_res = None
IdlePieces == info_in = None /\ split_res = None
IdleUrl == tf = None /\ url_args = None /\ url_res = None
IdleDecode == doc = <<>> /\ info_res = None /\ bencode_res = None /\ torrent_res = None
IdleUi == model = None /\ now = 0 /\ pc = "idle" /\ event = [type |-> "none"] /\ message = None
IdlePopup == popup = None /\ popup_call = None /\ popup_ret = None
IdleHash ==
    /\ hash_input = <<>>
    /\ hash_res = None
    /\ hash_res2 = None
    /\ canon_res = None
    /\ info_changed = None
    /\ changed_input = <<>>
    /\ changed_res = None

(***************************************************************************)
(* Specification of the compact peer decoder                               *)
(***************************************************************************)
InitPeers ==
    /\ peers_bin \in PeersInputs
    /\ peers_res = None
    /\ IdlePieces
    /\ IdleUrl
    /\ IdleDecode
    /\ IdleHash
    /\ IdleUi
    /\ IdlePopup

Unmarshal ==
    /\ peers_res = None
    /\ peers_res' = unmarshal(peers_bin)
    /\ UNCHANGED <<peers_bin, piecesVars, urlVars, decodeVars, hashVars, uiVars, popupVars>>

NextPeers == Unmarshal

SpecPeers == InitPeers /\ [][NextPeers]_vars

(***************************************************************************)
(* Specification of the piece-hash splitter                                *)
(***************************************************************************)
InitPieces ==
    /\ info_in \in InfoInputs
    /\ split_res = None
    /\ IdlePeers
    /\ IdleUrl
    /\ IdleDecode
    /\ IdleHash
    /\ IdleUi
    /\ IdlePopup

SplitPiecesHashes ==
    /\ split_res = None
    /\ info_in # None
    /\ split_res' = split_pieces_hashes(info_in)
    /\ UNCHANGED <<info_in, peersVars, urlVars, decodeVars, hashVars, uiVars, popupVars>>

NextPieces == SplitPiecesHashes

SpecPieces == InitPieces /\ [][NextPieces]_vars

(***************************************************************************)
(* Specification of the tracker-URL builder                                *)
(***************************************************************************)
InitUrl ==
    /\ tf \in TorrentFileInputs
    /\ url_args = None
    /\ url_res = None
    /\ IdlePeers
    /\ IdlePieces
    /\ IdleDecode
    /\ IdleHash
    /\ IdleUi
    /\ IdlePopup

BuildTrackerUrl ==
    /\ url_res = None
    /\ tf # None
    /\ \E peer_id \in HashInputs, port \in PortInputs :
         /\ url_args' = [peer_id |-> peer_id, port |-> port]
         /\ url_res' = build_tracker_url(tf, peer_id, port)
    /\ UNCHANGED <<tf, peersVars, piecesVars, decodeVars, hashVars, uiVars, popupVars>>

NextUrl == BuildTrackerUrl

SpecUrl == InitUrl /\ [][NextUrl]_vars

(***************************************************************************)
(* Specification of the metadata decoder: a buffer is decoded as an info   *)
(* dictionary (BencodeInfo::from_bencode, then split_pieces_hashes, as the *)
(* unit tests do) or as a torrent file (BencodeTorrent::from_bencode, then *)
(* TorrentFile::try_from, as TorrentFile::open does, then                  *)
(* build_tracker_url on the descriptor)                                    *)
(***************************************************************************)
Init ==
    /\ doc \in DocInputs
    /\ info_res = None
    /\ bencode_res = None
    /\ torrent_res = None
    /\ split_res = None
    /\ info_in = None
    /\ IdlePeers
    /\ IdleUrl
    /\ IdleHash
    /\ IdleUi
    /\ IdlePopup

InfoFromBencode ==
    /\ info_res = None
    /\ bencode_res = None
    /\ info_res' = BencodeInfo_from_bencode(doc)
    /\ UNCHANGED <<doc, bencode_res, torrent_res, piecesVars, peersVars, urlVars, hashVars, uiVars, popupVars>>

SplitDecodedInfo ==
    /\ info_res.tag = "ok"
    /\ split_res = None
    /\ info_in' = info_res.val
    /\ split_res' = split_pieces_hashes(info_res.val)
    /\ UNCHANGED <<decodeVars, peersVars, urlVars, hashVars, uiVars, popupVars>>

TorrentFromBencode ==
    /\ info_res = None
    /\ bencode_res = None
    /\ bencode_res' = BencodeTorrent_from_bencode(doc)
    /\ UNCHANGED <<doc, info_res, torrent_res, piecesVars, peersVars, urlVars, hashVars, uiVars, popupVars>>

TryFrom ==
    /\ bencode_res.tag = "ok"
    /\ torrent_res = None
    /\ torrent_res' = TorrentFile_try_from(bencode_res.val)
    /\ UNCHANGED <<doc, info_res, bencode_res, piecesVars, peersVars, urlVars, hashVars, uiVars, popupVars>>

BuildTrackerUrlOfDescriptor ==
    /\ torrent_res.tag = "ok"
    /\ url_res = None
    /\ tf' = torrent_res.val
    /\ \E peer_id \in HashInputs, port \in PortInputs :
         /\ url_args' = [peer_id |-> peer_id, port |-> port]
         /\ url_res' = build_tracker_url(torrent_res.val, peer_id, port)
    /\ UNCHANGED <<decodeVars, peersVars, piecesVars, hashVars, uiVars, popupVars>>

Next ==
    \/ InfoFromBencode
    \/ SplitDecodedInfo
    \/ TorrentFromBencode
    \/ TryFrom
    \/ BuildTrackerUrlOfDescriptor

Spec == Init /\ [][Next]_vars

(***************************************************************************)
(* Specification of the info hash: hash is called on a BencodeInfo, called *)
(* again on the same value (tests::hash_success), the buffer it digests is *)
(* decoded, and hash is called on a value with one field changed           *)
(* (tests::hash_different_for_different_info), one call after the other    *)
(***************************************************************************)
InitHash ==
    /\ info_in \in HashInfoInputs
    /\ split_res = None
    /\ IdleHash
    /\ IdlePeers
    /\ IdleUrl
    /\ IdleDecode
    /\ IdleUi
    /\ IdlePopup

Hash ==
    /\ info_in # None
    /\ hash_res = None
    /\ hash_input' = hash_buf(info_in)
    /\ hash_res' = hash(info_in)
    /\ UNCHANGED <<hash_res2, canon_res, info_changed, changed_input, changed_res,
                   peersVars, piecesVars, urlVars, decodeVars, uiVars, popupVars>>

HashAgain ==
    /\ hash_res # None
    /\ hash_res2 = None
    /\ hash_res2' = hash(info_in)
    /\ UNCHANGED <<hash_input, hash_res, canon_res, info_changed, changed_input, changed_res,
                   peersVars, piecesVars, urlVars, decodeVars, uiVars, popupVars>>

DecodeHashInput ==
    /\ hash_res2 # None
    /\ canon_res = None
    /\ canon_res' = BencodeInfo_from_bencode(hash_input)
    /\ UNCHANGED <<hash_input, hash_res, hash_res2, info_changed, changed_input, changed_res,
                   peersVars, piecesVars, urlVars, decodeVars, uiVars, popupVars>>

HashChanged ==
    /\ canon_res # None
    /\ changed_res = None
    /\ \E field \in FIELDS :
         /\ info_changed' = Changed(info_in, field)
         /\ changed_input' = hash_buf(Changed(info_in, field))
         /\ changed_res' = hash(Changed(info_in, field))
    /\ UNCHANGED <<hash_input, hash_res, hash_res2, canon_res,
                   peersVars, piecesVars, urlVars, decodeVars, uiVars, popupVars>>

NextHash ==
    \/ Hash
    \/ HashAgain
    \/ DecodeHashInput
    \/ HashChanged

SpecHash == InitHash /\ [][NextHash]_vars

(***************************************************************************)
(* Specification of the terminal event loop, interface::init: while the    *)
(* Model is not Done, draw (pc = "draw"), handle_event (pc = "event"), and  *)
(* update while there is a message (pc = "update"); then restore the       *)
(* terminal (pc = "restored")                                              *)
(***************************************************************************)
InitUi ==
    /\ model = Model_default
    /\ now = 0
    /\ pc = "draw"
    /\ event = NoEvent
    /\ message = None
    /\ IdlePeers
    /\ IdlePieces
    /\ IdleUrl
    /\ IdleDecode
    /\ IdleHash
    /\ IdlePopup

\* terminal.draw(|f| view(&mut model, f)): view changes nothing of the Model
View ==
    /\ pc = "draw"
    /\ pc' = "event"
    /\ UNCHANGED <<model, now, event, message,
                   peersVars, piecesVars, urlVars, decodeVars, hashVars, popupVars>>

\* handle_event: either the exit message has expired, or poll waits for an
\* event, up to its timeout when none comes
HandleEvent ==
    /\ pc = "event"
    /\ IF exit_message_expired(model, now)
       THEN /\ event' = NoEvent
            /\ now' = now
            /\ message' = handle_event(model, now, NoEvent, now)
       ELSE \E ev \in Events, wait \in 0..from_millis(POLL_MILLIS) :
               /\ ev = NoEvent => wait = from_millis(POLL_MILLIS)
               /\ now + wait <= MaxNow
               /\ event' = ev
               /\ now' = now + wait
               /\ message' = handle_event(model, now, ev, now + wait)
    /\ pc' = "update"
    /\ UNCHANGED <<model, peersVars, piecesVars, urlVars, decodeVars, hashVars, popupVars>>

\* while message.is_some() { message = update(&mut model, message.unwrap()) },
\* and the test of the outer while
Update ==
    /\ pc = "update"
    /\ model' = IF message = None THEN model ELSE update(model, message.val, now)
    /\ message' = None
    /\ pc' = IF model'.running_state = "Done" THEN "restored" ELSE "draw"
    /\ UNCHANGED <<now, event, peersVars, piecesVars, urlVars, decodeVars, hashVars,
                   popupVars>>

NextUi ==
    \/ View
    \/ HandleEvent
    \/ Update

SpecUi == InitUi /\ [][NextUi]_vars

(***************************************************************************)
(* Specification of update alone: any sequence of messages, at any times   *)
(***************************************************************************)
InitUpdate ==
    /\ model = Model_default
    /\ now = 0
    /\ pc = "idle"
    /\ event = NoEvent
    /\ message = None
    /\ IdlePeers
    /\ IdlePieces
    /\ IdleUrl
    /\ IdleDecode
    /\ IdleHash
    /\ IdlePopup

UpdateWith ==
    /\ pc = "idle"
    /\ \E msg \in Messages :
         /\ model' = update(model, msg, now)
         /\ message' = Some(msg)
    /\ UNCHANGED <<now, pc, event, peersVars, piecesVars, urlVars, decodeVars, hashVars,
                   popupVars>>

\* time passes between two calls
Tick ==
    /\ pc = "idle"
    /\ now < MaxNow
    /\ now' = now + 1
    /\ UNCHANGED <<model, pc, event, message, peersVars, piecesVars, urlVars, decodeVars,
                   hashVars, popupVars>>

NextUpdate ==
    \/ UpdateWith
    \/ Tick

SpecUpdate == InitUpdate /\ [][NextUpdate]_vars

(***************************************************************************)
(* Specification of ConfirmationPopup: after new, any sequence of show,    *)
(* hide, update and handle_key                                             *)
(***************************************************************************)
InitPopup ==
    /\ popup \in {ConfirmationPopup_new(t, c) : t \in PopupTitles, c \in PopupContents}
    /\ popup_call = [fn |-> "new"]
    /\ popup_ret = None
    /\ IdlePeers
    /\ IdlePieces
    /\ IdleUrl
    /\ IdleDecode
    /\ IdleHash
    /\ IdleUi

PopupShow ==
    /\ popup # None
    /\ popup' = ConfirmationPopup_show(popup)
    /\ popup_call' = [fn |-> "show"]
    /\ popup_ret' = None
    /\ UNCHANGED <<peersVars, piecesVars, urlVars, decodeVars, hashVars, uiVars>>

PopupHide ==
    /\ popup # None
    /\ popup' = ConfirmationPopup_hide(popup)
    /\ popup_call' = [fn |-> "hide"]
    /\ popup_ret' = None
    /\ UNCHANGED <<peersVars, piecesVars, urlVars, decodeVars, hashVars, uiVars>>

PopupUpdate ==
    /\ popup # None
    /\ \E msg \in ConfirmationMessages :
         /\ popup' = ConfirmationPopup_update(popup, msg).self
         /\ popup_call' = [fn |-> "update", msg |-> msg]
         /\ popup_ret' = ConfirmationPopup_update(popup, msg).ret
    /\ UNCHANGED <<peersVars, piecesVars, urlVars, decodeVars, hashVars, uiVars>>

PopupHandleKey ==
    /\ popup # None
    /\ \E key \in PopupKeys :
         /\ popup' = ConfirmationPopup_handle_key(popup, key).self
         /\ popup_call' = [fn |-> "handle_key", key |-> key]
         /\ popup_ret' = ConfirmationPopup_handle_key(popup, key).ret
    /\ UNCHANGED <<peersVars, piecesVars, urlVars, decodeVars, hashVars, uiVars>>

NextPopup ==
    \/ PopupShow
    \/ PopupHide
    \/ PopupUpdate
    \/ PopupHandleKey

SpecPopup == InitPopup /\ [][NextPopup]_vars

(***************************************************************************)
(* Claims about the compact peer decoder, checked under SpecPeers          *)
(***************************************************************************)

\* C3: for an input whose length L is not a multiple of 6, Peer::unmarshal
\* returns an error, no peer list, and the error reports the length L.
C3_MalformedLengthReportsL ==
    (peers_res # None /\ Len(peers_bin) % 6 # 0)
        => /\ peers_res.tag = "err"
           /\ Len(peers_bin) \in Range(peers_res.err.args)

\* C4: for an input whose length L is a multiple of 6 (0 included),
\* Peer::unmarshal returns exactly L/6 peers in input order; peer k has the
\* address bytes 6k..6k+3 and the port 256 * byte[6k+4] + byte[6k+5].
C4_UnmarshalDecodesInOrder ==
    (peers_res # None /\ Len(peers_bin) % 6 = 0)
        => /\ peers_res.tag = "ok"
           /\ Len(peers_res.val) = Len(peers_bin) \div 6
           /\ \A k \in 0..(Len(peers_bin) \div 6) - 1 :
                /\ peers_res.val[k + 1].ip =
                       <<peers_bin[6 * k + 1], peers_bin[6 * k + 2],
                         peers_bin[6 * k + 3], peers_bin[6 * k + 4]>>
                /\ peers_res.val[k + 1].port =
                       256 * peers_bin[6 * k + 5] + peers_bin[6 * k + 6]

\* two different peers decoded, the ports not symmetric in their two bytes
C4_Witness ==
    /\ peers_res.tag = "ok"
    /\ Len(peers_res.val) = 2
    /\ peers_res.val[1] # peers_res.val[2]
    /\ peers_bin[5] # peers_bin[6]

(***************************************************************************)
(* Claims about the piece-hash splitter, checked under SpecPieces          *)
(***************************************************************************)

\* C5: for pieces whose length L is a multiple of 20 (0 included),
\* split_pieces_hashes returns exactly L/20 records, record i being the bytes
\* [20i, 20i+20) of pieces.
C5_SplitReturnsRecordsInOrder ==
    (split_res # None /\ Len(info_in.pieces) % 20 = 0)
        => /\ split_res.tag = "ok"
           /\ Len(split_res.val) = Len(info_in.pieces) \div 20
           /\ \A i \in 0..(Len(info_in.pieces) \div 20) - 1 :
                /\ Len(split_res.val[i + 1]) = 20
                /\ \A j \in 1..20 :
                     split_res.val[i + 1][j] = info_in.pieces[20 * i + j]

\* two different records split off
C5_Witness ==
    /\ split_res.tag = "ok"
    /\ Len(split_res.val) = 2
    /\ split_res.val[1] # split_res.val[2]

\* C6: for pieces whose length L is not a multiple of 20, split_pieces_hashes
\* returns an error, no list of records, and the message names the length L.
C6_SplitRejectsMalformedLength ==
    (split_res # None /\ Len(info_in.pieces) % 20 # 0)
        => /\ split_res.tag = "err"
           /\ Len(info_in.pieces) \in Range(split_res.err.args)

\* rejected although a complete leading record is there
C6_Witness ==
    /\ split_res.tag = "err"
    /\ Len(info_in.pieces) > 20
    /\ split_res.err.args = <<Len(info_in.pieces)>>

(***************************************************************************)
(* Claims about the tracker-URL builder, checked under SpecUrl             *)
(***************************************************************************)
is_hex_digit(b) == b \in (48..57) \cup (65..70) \cup (97..102)

hex_value(b) == IF b \in 48..57 THEN b - 48 ELSE IF b \in 65..70 THEN b - 55 ELSE b - 87

\* one pass of percent-decoding: every '%' followed by two hexadecimal digits
\* is the byte they spell, every other byte is itself
percent_decode(v) ==
    LET esc(i) == /\ v[i] = 37
                  /\ i + 2 <= Len(v)
                  /\ is_hex_digit(v[i + 1])
                  /\ is_hex_digit(v[i + 2])
        inside(i) == (i > 1 /\ esc(i - 1)) \/ (i > 2 /\ esc(i - 2))
    IN  Concat([i \in 1..Len(v) |->
                   IF esc(i) THEN <<16 * hex_value(v[i + 1]) + hex_value(v[i + 2])>>
                   ELSE IF inside(i) THEN <<>>
                   ELSE <<v[i]>>])

\* the pieces of s between the separators sep
RECURSIVE Split(_, _)
Split(s, sep) ==
    LET i == Find(s, {sep}, 1)
    IN  IF i > Len(s)
        THEN <<s>>
        ELSE <<SubSeq(s, 1, i - 1)>> \o Split(SubSeq(s, i + 1, Len(s)), sep)

\* the text of a URL before its '?', and its query: the text between the
\* first '?' and the '#' after it
UrlBeforeQuery(u) == SubSeq(u, 1, Find(u, {63}, 1) - 1)
UrlQuery(u) == SubSeq(u, Find(u, {63}, 1) + 1, Find(u, {35}, Find(u, {63}, 1)) - 1)

\* the name=value parameters of a URL's query, in order
UrlParams(u) ==
    LET ps == Split(UrlQuery(u), 38)
    IN  [k \in 1..Len(ps) |->
            [name |-> SubSeq(ps[k], 1, Find(ps[k], {61}, 1) - 1),
             value |-> SubSeq(ps[k], Find(ps[k], {61}, 1) + 1, Len(ps[k]))]]

\* C1: in the URL build_tracker_url returns, the values of info_hash and
\* peer_id are the percent-encoding of the raw 20 bytes (a letter or digit as
\* itself, any other byte once as %XX), so that decoding the value once gives
\* back the 20 bytes.
C1_HashValuesPercentEncodedOnce ==
    url_res.tag = "ok"
        => LET ps == UrlParams(url_res.val)
           IN  /\ Len(ps) >= 2
               /\ ps[1].name = KEY_info_hash
               /\ ps[1].value = percent_encode(tf.info_hash)
               /\ percent_decode(ps[1].value) = tf.info_hash
               /\ ps[2].name = KEY_peer_id
               /\ ps[2].value = percent_encode(url_args.peer_id)
               /\ percent_decode(ps[2].value) = url_args.peer_id

\* C2: for an announce that parses as an absolute URL, with or without a
\* query of its own, build_tracker_url returns the announce's scheme, host and
\* path followed by a query of exactly seven parameters, in the order
\* info_hash, peer_id, port=<port>, uploaded=0, downloaded=0, compact=1,
\* left=<length>; nothing of the announce's query remains.
C2_QueryReplacedBySevenParams ==
    (url_res # None /\ Url_parse(tf.announce).tag = "ok")
        => /\ url_res.tag = "ok"
           /\ UrlBeforeQuery(url_res.val) =
                 Url_to_string([Url_parse(tf.announce).val EXCEPT
                                   !.has_query = FALSE, !.has_fragment = FALSE])
           /\ LET ps == UrlParams(url_res.val)
              IN  /\ Len(ps) = 7
                  /\ [k \in 1..7 |-> ps[k].name] =
                        <<KEY_info_hash, KEY_peer_id, KEY_port, KEY_uploaded,
                          KEY_downloaded, KEY_compact, KEY_left>>
                  /\ Len(ps[1].value) > 0
                  /\ Len(ps[2].value) > 0
                  /\ ps[3].value = to_string(url_args.port)
                  /\ ps[4].value = <<48>>  \* "0"
                  /\ ps[5].value = <<48>>  \* "0"
                  /\ ps[6].value = <<49>>  \* "1"
                  /\ ps[7].value = to_string(tf.length)

\* a URL built from an announce that carried a query and a fragment
C2_Witness ==
    /\ url_res.tag = "ok"
    /\ Url_parse(tf.announce).val.has_query
    /\ Url_parse(tf.announce).val.has_fragment
    /\ Len(UrlParams(url_res.val)) = 7

(***************************************************************************)
(* Claims about the metadata decoder, checked under Spec                   *)
(***************************************************************************)
\* sub occurs in s
Contains(s, sub) ==
    \E i \in 1..(Len(s) - Len(sub) + 1) : SubSeq(s, i, i + Len(sub) - 1) = sub

\* the buffer is one complete bencoded dictionary
IsDictDoc(bytes) ==
    /\ ParseValue(bytes, 1).err = ""
    /\ ParseValue(bytes, 1).val.type = "dict"

\* the keys of a dictionary object, and the value under a key it has
KeysOf(dict) == {dict.pairs[i].key : i \in 1..Len(dict.pairs)}
ValueOf(dict, key) ==
    dict.pairs[CHOOSE i \in 1..Len(dict.pairs) : dict.pairs[i].key = key].value

\* the required keys, in the order the decoders look for them at the end
InfoRequired == <<KEY_pieces, KEY_piece_length, KEY_length, KEY_name>>
TorrentRequired == <<KEY_announce, KEY_info>>

\* the required keys the dictionary does not have, in that order
Absent(dict, required) == SelectSeq(required, LAMBDA k : k \notin KeysOf(dict))

\* no entry of the info dictionary fails its own conversion
InfoEntriesConvert(dict) ==
    \A i \in 1..Len(dict.pairs) :
        info_pair([pieces |-> None, piece_length |-> None, length |-> None,
                   name |-> None, err |-> None],
                  dict.pairs[i].key, dict.pairs[i].value).err = None

TorrentEntriesConvert(dict) ==
    \A i \in 1..Len(dict.pairs) :
        torrent_pair([announce |-> None, info |-> None, err |-> None],
                     dict.pairs[i].key, dict.pairs[i].value).err = None

\* "12:piece lengthi0e", "12:piece lengthi-", "6:lengthi-", "6:lengthi0e"
TEXT_piece_length_zero == <<49, 50, 58, 112, 105, 101, 99, 101, 32, 108, 101, 110, 103, 116, 104, 105, 48, 101>>
TEXT_piece_length_negative == <<49, 50, 58, 112, 105, 101, 99, 101, 32, 108, 101, 110, 103, 116, 104, 105, 45>>
TEXT_length_negative == <<54, 58, 108, 101, 110, 103, 116, 104, 105, 45>>
TEXT_length_zero == <<54, 58, 108, 101, 110, 103, 116, 104, 105, 48, 101>>

\* C7: every record the decoder returns has piece_length >= 1; an info
\* dictionary whose piece length is zero or negative fails with InvalidField.
C7_PieceLengthAtLeastOne ==
    /\ info_res.tag = "ok" => info_res.val.piece_length >= 1
    /\ bencode_res.tag = "ok" => bencode_res.val.info.piece_length >= 1
    /\ (/\ info_res # None
        /\ IsDictDoc(doc)
        /\ \/ Contains(doc, TEXT_piece_length_zero)
           \/ Contains(doc, TEXT_piece_length_negative))
           => info_res.tag = "err" /\ info_res.err.kind = "InvalidField"

\* C8: an info dictionary whose length is negative fails and gives no record;
\* every record the decoder returns has length >= 0; a length of 0 is
\* accepted.
C8_NegativeLengthRejected ==
    /\ info_res.tag = "ok" => info_res.val.length >= 0
    /\ bencode_res.tag = "ok" => bencode_res.val.info.length >= 0
    /\ (info_res # None /\ Contains(doc, TEXT_length_negative)) => info_res.tag = "err"
    /\ (bencode_res # None /\ Contains(doc, TEXT_length_negative)) => bencode_res.tag = "err"
    /\ (/\ info_res # None
        /\ doc = Bdict(<<Entry(KEY_length, Bint(<<48>>)), E_name, E_piece_length, E_pieces>>))
           => info_res.tag = "ok" /\ info_res.val.length = 0
    /\ (info_res.tag = "ok" /\ Contains(doc, TEXT_length_zero)) => info_res.val.length = 0

\* an info dictionary that is right but for its length of -1 was refused
C8_Witness ==
    /\ doc = Bdict(<<Entry(KEY_length, Bint(<<45, 49>>)), E_name,
                     Entry(KEY_piece_length, Bint(<<49>>)), E_pieces>>)
    /\ info_res.tag = "err"

C10_DecodedPiecesMultipleOf20 ==
    /\ info_res.tag = "ok" => Len(info_res.val.pieces) % HASH_LEN = 0
    /\ bencode_res.tag = "ok" => Len(bencode_res.val.info.pieces) % HASH_LEN = 0

\* C10, amended: the decoder takes a pieces string of any length; it is
\* split_pieces_hashes, and with it TorrentFile::try_from, that refuses a length
\* that is no multiple of 20, naming the length, so that every TorrentFile has
\* one 20-byte hash for every 20 bytes of pieces.
C10_OnlySplitRefusesPiecesLength ==
    /\ (info_res.tag = "ok" /\ split_res # None)
          => IF Len(info_res.val.pieces) % HASH_LEN = 0
             THEN /\ split_res.tag = "ok"
                  /\ Len(split_res.val) * HASH_LEN = Len(info_res.val.pieces)
             ELSE /\ split_res.tag = "err"
                  /\ split_res.err.args = <<Len(info_res.val.pieces)>>
    /\ (bencode_res.tag = "ok" /\ torrent_res # None)
          => IF Len(bencode_res.val.info.pieces) % HASH_LEN = 0
             THEN /\ torrent_res.tag = "ok"
                  /\ Len(torrent_res.val.piece_hashes) * HASH_LEN =
                        Len(bencode_res.val.info.pieces)
                  /\ \A i \in 1..Len(torrent_res.val.piece_hashes) :
                        Len(torrent_res.val.piece_hashes[i]) = HASH_LEN
             ELSE /\ torrent_res.tag = "err"
                  /\ torrent_res.err.args = <<Len(bencode_res.val.info.pieces)>>

\* a torrent file whose pieces string has 19 bytes was decoded, and refused by
\* try_from
C10_Witness ==
    /\ bencode_res.tag = "ok"
    /\ Len(bencode_res.val.info.pieces) = 19
    /\ torrent_res.tag = "err"

(***************************************************************************)
(* Claims about the info hash, checked under SpecHash                      *)
(***************************************************************************)
\* the number a text of decimal digits spells
RECURSIVE DigitsValue(_)
DigitsValue(text) ==
    IF Len(text) = 0
    THEN 0
    ELSE 10 * DigitsValue(SubSeq(text, 1, Len(text) - 1)) + (text[Len(text)] - 48)

\* text is n in decimal, without a sign and without leading zeros
IsDecimalOf(text, n) ==
    /\ Len(text) >= 1
    /\ \A i \in 1..Len(text) : text[i] \in 48..57
    /\ Len(text) > 1 => text[1] # 48
    /\ DigitsValue(text) = n

\* "6:length", "4:name", "12:piece length", "6:pieces"
TEXT_key_length == <<54, 58, 108, 101, 110, 103, 116, 104>>
TEXT_key_name == <<52, 58, 110, 97, 109, 101>>
TEXT_key_piece_length == <<49, 50, 58, 112, 105, 101, 99, 101, 32, 108, 101, 110, 103, 116, 104>>
TEXT_key_pieces == <<54, 58, 112, 105, 101, 99, 101, 115>>

\* C11: the buffer hash digests is 'd', 6:length i<length>e, 4:name
\* <bytes of name>:<name>, 12:piece length i<piece_length>e, 6:pieces
\* <bytes of pieces>:<pieces>, 'e': each key once, in ascending order, the
\* numbers in decimal without leading zeros, the prefixes counting bytes.
C11_HashBufferIsCanonical ==
    hash_res # None
        => /\ hash_res.tag = "ok"
           /\ Len(hash_res.val) = HASH_LEN
           /\ \E len, name_len, plen, pieces_len \in
                    {to_string(n) : n \in {info_in.length, Len(info_in.name),
                                           info_in.piece_length, Len(info_in.pieces)}} :
                 /\ IsDecimalOf(len, info_in.length)
                 /\ IsDecimalOf(name_len, Len(info_in.name))
                 /\ IsDecimalOf(plen, info_in.piece_length)
                 /\ IsDecimalOf(pieces_len, Len(info_in.pieces))
                 /\ hash_input =
                       <<100>>
                       \o TEXT_key_length \o <<105>> \o len \o <<101>>
                       \o TEXT_key_name \o name_len \o <<58>> \o info_in.name
                       \o TEXT_key_piece_length \o <<105>> \o plen \o <<101>>
                       \o TEXT_key_pieces \o pieces_len \o <<58>> \o info_in.pieces
                       \o <<101>>
           /\ LexLess(KEY_length, KEY_name)
           /\ LexLess(KEY_name, KEY_piece_length)
           /\ LexLess(KEY_piece_length, KEY_pieces)

\* hash was called on a value whose name has two bytes for one character and
\* whose length has five digits
C11_Witness ==
    /\ hash_res.tag = "ok"
    /\ info_in.name = <<195, 169>>
    /\ info_in.length = 12345
    /\ Len(hash_input) > 0

\* C12: decoding the buffer hash digests succeeds and gives back the four
\* fields of the value hash was called on.
C12_CanonicalRoundTrip ==
    canon_res # None
        => /\ canon_res.tag = "ok"
           /\ canon_res.val.name = info_in.name
           /\ canon_res.val.piece_length = info_in.piece_length
           /\ canon_res.val.length = info_in.length
           /\ canon_res.val.pieces = info_in.pieces

\* the buffer of a value whose name reads as bencode and whose pieces have 19
\* bytes was decoded
C12_Witness ==
    /\ canon_res.tag = "ok"
    /\ info_in.name = <<52, 58, 110, 97, 109, 101>>
    /\ Len(info_in.pieces) = 19

\* C13: a second call of hash on the same value returns the same 20 bytes;
\* a value that differs in one field has another buffer and another digest,
\* and no two different values have the same buffer.
C13_HashDeterministicFieldSensitive ==
    /\ hash_res2 # None => hash_res2 = hash_res
    /\ changed_res # None
          => /\ info_changed # info_in
             /\ changed_input # hash_input
             /\ changed_res.tag = "ok"
             /\ changed_res # hash_res
    /\ hash_res # None
          => \A other \in HashInfoInputs :
                (hash_buf(other) = hash_input) <=> (other = info_in)

\* hash was called twice on a value and once on the value with another name
C13_Witness ==
    /\ hash_res2 = hash_res
    /\ hash_res.tag = "ok"
    /\ changed_res.tag = "ok"
    /\ info_changed.name # info_in.name
    /\ changed_res # hash_res

(***************************************************************************)
(* Claims about unknown keys, checked under Spec                           *)
(***************************************************************************)
\* a decoded object written as bencode again
RECURSIVE Reencode(_)
Reencode(object) ==
    IF object.type = "bytes" THEN Bstr(object.bytes)
    ELSE IF object.type = "int" THEN Bint(object.text)
    ELSE IF object.type = "list"
    THEN <<108>> \o Concat([i \in 1..Len(object.items) |-> Reencode(object.items[i])])
               \o <<101>>
    ELSE <<100>> \o Concat([i \in 1..Len(object.pairs) |->
                               Entry(object.pairs[i].key, Reencode(object.pairs[i].value))])
               \o <<101>>

\* a dictionary object without the pairs whose key is not in known
KeepKeys(dict, known) ==
    [dict EXCEPT !.pairs = SelectSeq(@, LAMBDA pair : pair.key \in Range(known))]

\* a torrent document without its unknown keys, at the top level and in the
\* info dictionary
StripUnknown(bytes) ==
    LET top == KeepKeys(ParseValue(bytes, 1).val, TorrentRequired)
        strip(pair) ==
            IF pair.key = KEY_info /\ pair.value.type = "dict"
            THEN [pair EXCEPT !.value = KeepKeys(@, InfoRequired)]
            ELSE pair
    IN  Reencode([top EXCEPT !.pairs = [i \in 1..Len(@) |-> strip(@[i])]])

C15_AnnounceFailsOnlyInUrlBuild ==
    /\ torrent_res.tag = "err" => Len(bencode_res.val.info.pieces) % HASH_LEN # 0
    /\ (torrent_res # None /\ Len(bencode_res.val.info.pieces) % HASH_LEN = 0)
          => /\ torrent_res.tag = "ok"
             /\ torrent_res.val.announce = bencode_res.val.announce
    /\ (url_res # None /\ Url_parse(tf.announce).tag = "err")
          => /\ url_res.tag = "err"
             /\ url_res.err.fmt = "Invalid announce URL: {}"
             /\ url_res.err.args = <<tf.announce>>
    /\ url_res.tag = "err" => Url_parse(tf.announce).tag = "err"

\* the document whose announce is "not-a-valid-url" became a descriptor, and
\* build_tracker_url on it failed
C15_Witness ==
    /\ torrent_res.tag = "ok"
    /\ torrent_res.val.announce = ANNOUNCE_invalid
    /\ tf = torrent_res.val
    /\ url_res.tag = "err"

\* C16: try_from returns an error and nothing else when the pieces length is
\* no multiple of 20; otherwise it returns a descriptor with all six fields:
\* info_hash = hash(info), piece_hashes = split_pieces_hashes(info), with
\* len(pieces)/20 entries, and announce, piece_length, length and name as
\* decoded.
C16_TryFromAllOrNothing ==
    (torrent_res # None /\ url_res = None)
        => LET info == bencode_res.val.info
           IN  IF Len(info.pieces) % HASH_LEN # 0
               THEN /\ torrent_res.tag = "err"
                    /\ DOMAIN torrent_res = {"tag", "err"}
               ELSE /\ torrent_res.tag = "ok"
                    /\ DOMAIN torrent_res.val =
                          {"announce", "info_hash", "piece_hashes", "piece_length",
                           "length", "name"}
                    /\ torrent_res.val.info_hash = hash(info).val
                    /\ Len(torrent_res.val.info_hash) = HASH_LEN
                    /\ torrent_res.val.piece_hashes = split_pieces_hashes(info).val
                    /\ Len(torrent_res.val.piece_hashes) = Len(info.pieces) \div HASH_LEN
                    /\ torrent_res.val.announce = bencode_res.val.announce
                    /\ torrent_res.val.piece_length = info.piece_length
                    /\ torrent_res.val.length = info.length
                    /\ torrent_res.val.name = info.name

\* a descriptor with two piece hashes was returned
C16_Witness ==
    /\ torrent_res.tag = "ok"
    /\ url_res = None
    /\ Len(torrent_res.val.piece_hashes) = 2
    /\ Len(bencode_res.val.info.pieces) = 2 * HASH_LEN

(***************************************************************************)
(* Claims about the terminal event loop, checked under SpecUi and          *)
(* SpecUpdate                                                              *)
(***************************************************************************)
CTRL_C == KeyEvent("c", TRUE, "Press")

\* C17: whenever the exit message is shown, a press of Ctrl+C handled in
\* that state ends the loop: handle_key returns Quit.
C17_CtrlCQuitsWhileMessageShown ==
    (pc = "update" /\ event = CTRL_C /\ model.show_exit_message)
        => message = Some("Quit")

\* the steps of the loop, for C18
C18_Step ==
    \* once Done, Done
    /\ model.running_state = "Done" => model'.running_state = "Done"
    \* Done is set by update(Quit) alone, after a press of 'q' or after a
    \* press of Ctrl+C less than 2 seconds after a recorded Ctrl+C
    /\ (model.running_state = "Running" /\ model'.running_state = "Done")
          => /\ pc = "update"
             /\ message = Some("Quit")
             /\ event.type = "key"
             /\ event.kind = "Press"
             /\ \/ event.code = "q"
                \/ /\ event = CTRL_C
                   /\ model.last_ctrl_c # None
                   /\ now - model.last_ctrl_c.val < 2 * 4
    \* what handle_event returns
    /\ (pc = "event" /\ pc' = "update")
          => IF event'.type = "key" /\ event'.kind = "Press" /\ event'.code = "q"
             THEN message' = Some("Quit")
             ELSE IF event' = CTRL_C
             THEN IF model.last_ctrl_c # None /\ now' - model.last_ctrl_c.val < 2 * 4
                  THEN message' = Some("Quit")
                  ELSE message' = Some("CtrlC")
             ELSE message' \in {None, Some("ClearExitMessage")}
    \* what update does
    /\ pc = "update"
          => /\ message = Some("Quit") => model'.running_state = "Done"
             /\ message = Some("CtrlC")
                   => model' = [model EXCEPT !.last_ctrl_c = Some(now),
                                             !.show_exit_message = TRUE]
             /\ message = Some("ClearExitMessage")
                   => model' = [model EXCEPT !.last_ctrl_c = None,
                                             !.show_exit_message = FALSE]
             /\ message = None => model' = model
    \* another key, and the timeout of 3 seconds, clear the recorded Ctrl+C
    /\ (/\ pc = "event"
        /\ pc' = "update"
        /\ model.show_exit_message
        /\ \/ now - model.last_ctrl_c.val > 3 * 4
           \/ /\ event'.type = "key"
              /\ event'.kind = "Press"
              /\ event'.code # "q"
              /\ ~(event'.code = "c" /\ event'.ctrl))
          => message' = Some("ClearExitMessage")

\* C18: the loop ends only through a Quit message: a press of 'q' always
\* sets Done; a press of Ctrl+C sets Done only when a Ctrl+C was recorded less
\* than 2 seconds (8 ticks) earlier and not cleared since, by another key or by
\* the timeout of 3 seconds, and otherwise records the time and shows the exit
\* message; no other key and no timeout sets Done; Done never becomes Running.
C18_QuitOnlyThroughQuitMessage == [][C18_Step]_vars

\* the loop was ended by a second Ctrl+C
C18_Witness ==
    /\ pc = "restored"
    /\ model.running_state = "Done"
    /\ event = CTRL_C
    /\ model.last_ctrl_c # None
    /\ model.show_exit_message

\* C19: after any sequence of updates with Quit, CtrlC and ClearExitMessage
\* from the default Model, show_exit_message is true exactly when last_ctrl_c
\* is set.
C19_ExitMessageIffLastCtrlC ==
    model # None => (model.show_exit_message <=> model.last_ctrl_c # None)

\* CtrlC was the last update of a Model that is Done, after ClearExitMessage
\* was possible
C19_Witness ==
    /\ model.running_state = "Done"
    /\ model.show_exit_message
    /\ model.last_ctrl_c = Some(now)
    /\ now > 0
    /\ message = Some("CtrlC")

(***************************************************************************)
(* Claims about ConfirmationPopup, checked under SpecPopup                 *)
(***************************************************************************)
\* the calls of a step, for C20
C20_Step ==
    LET call == popup_call'
        is_key(codes) == call.fn = "handle_key" /\ call.key.code \in codes
    IN  \* update(Confirm) returns the selection, and hides
        /\ (call.fn = "update" /\ call.msg = "Confirm")
              => /\ popup_ret' = Some(IF popup.selected = "Yes" THEN "Yes" ELSE "No")
                 /\ ~popup'.visible
        /\ (call.fn = "update" /\ call.msg = "Cancel")
              => /\ popup_ret' = Some("Cancelled")
                 /\ ~popup'.visible
        \* show sets the selection to No
        /\ call.fn = "show" => (popup'.selected = "No" /\ popup'.visible)
        \* the selection changes through show, ToggleChoice, which flips it,
        \* and the keys y, Y, n, N on a visible popup, and through nothing else
        /\ (call.fn = "update" /\ call.msg = "ToggleChoice")
              => /\ popup'.selected # popup.selected
                 /\ popup'.selected \in {"Yes", "No"}
                 /\ popup_ret' = None
        /\ (is_key({"y", "Y"}) /\ popup.visible) => popup'.selected = "Yes"
        /\ (is_key({"n", "N"}) /\ popup.visible) => popup'.selected = "No"
        /\ popup'.selected # popup.selected
              => \/ call.fn = "show"
                 \/ call.fn = "update" /\ call.msg = "ToggleChoice"
                 \/ is_key({"y", "Y", "n", "N"}) /\ popup.visible
        \* handle_key on a hidden popup
        /\ (call.fn = "handle_key" /\ ~popup.visible)
              => (popup_ret' = None /\ popup' = popup)

\* C20: update(Confirm) returns the result of the current selection (Yes for
\* Yes, No otherwise); the selection is No after new() and after every show(),
\* and changes only through update(ToggleChoice), which flips it, and
\* handle_key of y/Y (Yes) and n/N (No) on a visible popup; handle_key on a
\* hidden popup returns None and changes nothing; after Confirm and after
\* Cancel the popup is hidden.
C20_ConfirmReturnsSelection ==
    /\ (popup_call = [fn |-> "new"] => (popup.selected = "No" /\ ~popup.visible))
    /\ [][C20_Step]_vars

\* update(Confirm) returned Yes and left the popup hidden
C20_Witness ==
    /\ popup_call = [fn |-> "update", msg |-> "Confirm"]
    /\ popup_ret = Some("Yes")
    /\ popup.selected = "Yes"
    /\ ~popup.visible

====
